---- MODULE Spec2Model ----
(***************************************************************************)
(* Read path of the distributor (pkg/distributor/query.go): the sample     *)
(* merger, the exemplar merger and reconciler, and the streaming query     *)
(* engine with its aggregator goroutine.                                   *)
(*                                                                         *)
(* MergeSpec  : mergeSamples / sameSamples and the per-series fold of the  *)
(*              aggregator, applied to bounded sorted inputs.              *)
(* ExSpec     : mergeExemplarSets and mergeExemplarQueryResponses, applied *)
(*              to bounded per-replica exemplar responses.                 *)
(* Spec       : queryIngesterStream as concurrent processes: one callback  *)
(*              per replica, the aggregator goroutine and the calling      *)
(*              goroutine (replicationSet.Do, doneCh, wg.Wait).            *)
(* PushSpec   : Spec over two replicas with one message more, so that a   *)
(*              channel of capacity len(Instances) fills.                  *)
(* MatrixSpec : the merge of queryIngesters, keyed by fingerprint.          *)
(* AggSpec    : the aggregator's two loops over a sequence of batches.     *)
(* SelectSpec : GetIngestersForQuery and GetIngestersForMetadata over the  *)
(*              configurations, tenants and matcher lists.                 *)
(* QuerySpec  : Query, QueryExemplars and QueryStream from their entry;    *)
(*              the engines of the first two with one callback per replica.*)
(* ReadSpec   : QuerySpec and Spec together, all three engines.            *)
(* PageSpec   : IndexPageContent (pkg/api/handlers.go): AddLink and        *)
(*              GetContent under the mutex, maps as references.            *)
(***************************************************************************)
EXTENDS Integers, Sequences, FiniteSets, TLC

VARIABLES
    op,     \* which function has been applied ("init" before any call)
    argA,   \* first sample sequence
    argB,   \* second sample sequence
    argC,   \* third sample sequence (a third replica's samples)
    perm,   \* the order in which the three sequences were folded in
    results,\* the per-replica exemplar responses handed to the reconciler
    ret     \* the value returned by the applied function

mergeVars == <<op, argA, argB, argC, perm, results, ret>>

VARIABLES
    instances,              \* replicationSet.Instances
    maxErrors,              \* replicationSet.MaxErrors
    budget,                 \* messages the replicas' streams still deliver
    cbPc,                   \* per replica: where its callback stands
    cbMsg,                  \* per replica: resp, the message last received
    cbChk,                  \* per replica: the next limit check of resp (1..5);
                            \* after a limit error, the check that returned it
    cbRes,                  \* per replica: what the callback returned
    chunkCount,             \* queryLimiter: chunks added
    uniqueSeries,           \* queryLimiter: label sets added
    chunkBytes,             \* queryLimiter: chunk bytes added
    dataBytes,              \* queryLimiter: data bytes added
    chCS,                   \* channel of chunk-series batches
    chTS,                   \* channel of time-series batches
    hashToChunkseries,
    hashToTimeSeries,
    aggPc,                  \* the aggregator goroutine
    wg,                     \* the WaitGroup counter
    mainPc,                 \* the goroutine running queryIngesterStream
    numSuccess,             \* replicationSet.Do: results collected
    numErrs,                \* replicationSet.Do: errors collected
    err,                    \* the error replicationSet.Do returns
    resp,                   \* what queryIngesterStream returns
    ingesterQueries,        \* d.ingesterQueries per replica
    ingesterQueryFailures,  \* d.ingesterQueryFailures per replica
    queuedCS,               \* batches in chCS when Do returned, not yet received
    queuedTS                \* batches in chTS when Do returned, not yet received

cbVars == <<cbPc, cbMsg, cbChk, cbRes>>

limiterVars == <<chunkCount, uniqueSeries, chunkBytes, dataBytes>>

chanVars == <<chCS, chTS, queuedCS, queuedTS>>

mapVars == <<hashToChunkseries, hashToTimeSeries>>

doVars == <<numSuccess, numErrs, err>>

counterVars == <<ingesterQueries, ingesterQueryFailures>>

streamVars == <<instances, maxErrors, budget, cbVars, limiterVars, chanVars, mapVars, aggPc, wg,
                mainPc, doVars, resp, counterVars>>

VARIABLES
    cfg,            \* d.cfg and d.limits: ShardingStrategy, ShardByAllLabels,
                    \* ShuffleShardingLookbackPeriod, IngestionTenantShardSize
    orgID,          \* the tenant carried by ctx ("none" when ctx carries none)
    matchers,       \* the label matchers of the request
    reqErr,         \* whether the conversion of the request fails
    now,            \* time.Now() as read by the last replica selection
    replicationSet  \* the replication set and error the selection returned

entryVars == <<cfg, orgID, matchers, reqErr, now, replicationSet>>

VARIABLES
    mu,         \* IndexPageContent.mu: the goroutine that holds it, or "free"
    heap,       \* the maps allocated, by address: a sequence of maps
    pagePc,     \* where each caller of AddLink / GetContent is
    frame,      \* each caller's arguments and local variables
    returned,   \* the map GetContent returned to its caller (an address)
    done,       \* the AddLink calls that have returned, in order
    doneAtLock  \* done, as it was when GetContent took the lock

pageVars == <<mu, heap, pagePc, frame, returned, done, doneAtLock>>

vars == <<mergeVars, streamVars, entryVars, pageVars>>

----------------------------------------------------------------------------
(* Bounds *)

\* Timestamps range over 1..MaxTs
MaxTs == 2

Timestamps == 1..MaxTs

SeqsUpTo(S, n) == UNION {[1..k -> S] : k \in 0..n}

\* Strictly ascending by timestamp.
IsSorted(s) == \A i \in 1..(Len(s) - 1) : s[i].TimestampMs < s[i + 1].TimestampMs

----------------------------------------------------------------------------
(* cortexpb.Sample: (TimestampMs int64, Value float64) *)

\* A float64 NaN: the one value that Go's == does not hold equal to itself.
NaN == -1

Values == {0, 1, NaN}

Sample == [TimestampMs : Timestamps, Value : Values]

\* Go's a[i] != b[i] on the struct: field-wise ==, with NaN != NaN.
sampleEq(x, y) ==
    /\ x.TimestampMs = y.TimestampMs
    /\ x.Value = y.Value
    /\ x.Value # NaN

sameSamples(a, b) ==
    IF Len(a) # Len(b) THEN FALSE
    ELSE \A i \in 1..Len(a) : sampleEq(a[i], b[i])

\* A mutant of mergeTie: on equal timestamps keep the right argument's sample.
mergeTieRight(x, y) == <<y>>

\* A mutant of mergeTie: on equal timestamps emit both samples.
mergeTieBoth(x, y) == <<x, y>>

\* The else-branch of the merge loop: equal timestamps, append a[i] only.
mergeTie(x, y) == <<x>>

\* The merge loop of mergeSamples and what follows it: a and b are the
\* unconsumed suffixes a[i:] and b[j:]; the value is what is appended to result.
RECURSIVE mergeLoop(_, _)
mergeLoop(a, b) ==
    IF a = <<>> \/ b = <<>> THEN a \o b
    ELSE IF Head(a).TimestampMs < Head(b).TimestampMs
         THEN <<Head(a)>> \o mergeLoop(Tail(a), b)
    ELSE IF Head(a).TimestampMs > Head(b).TimestampMs
         THEN <<Head(b)>> \o mergeLoop(a, Tail(b))
    ELSE mergeTie(Head(a), Head(b)) \o mergeLoop(Tail(a), Tail(b))

mergeSamples(a, b) ==
    IF sameSamples(a, b) THEN a ELSE mergeLoop(a, b)

\* A mutant of aggSamples: the incoming samples replace the stored ones.
aggSamplesReplace(existing, samples) == samples

\* The aggregator's update of one stored sample list (nil is <<>>).
aggSamples(existing, samples) ==
    IF existing = <<>> THEN samples ELSE mergeSamples(existing, samples)

----------------------------------------------------------------------------
(* Inputs: sample sequences sorted strictly ascending by timestamp *)

SortedSamples == {s \in SeqsUpTo(Sample, MaxTs) : IsSorted(s)}

TimestampsOf(s) == {s[i].TimestampMs : i \in 1..Len(s)}

TsSeq(s) == [i \in 1..Len(s) |-> s[i].TimestampMs]

Perms3 == {p \in [1..3 -> 1..3] : \A i, j \in 1..3 : p[i] = p[j] => i = j}

\* The sample list held for one series key after the aggregator has processed
\* the three lists in the order p.
FoldIn(p, s) == aggSamples(aggSamples(aggSamples(<<>>, s[p[1]]), s[p[2]]), s[p[3]])

----------------------------------------------------------------------------
(* cortexpb.Exemplar: (Labels, Value, TimestampMs), and mergeExemplarSets *)

ExLabels == {"x", "y"}

ExValues == {0, 1}

Exemplar == [TimestampMs : Timestamps, Labels : ExLabels, Value : ExValues]

SortedExemplars == {s \in SeqsUpTo(Exemplar, MaxTs) : IsSorted(s)}

\* A mutant of mergeExemplarSets: b appended to a without merging.
mergeExemplarSetsConcat(a, b) == a \o b

RECURSIVE mergeExemplarSets(_, _)
mergeExemplarSets(a, b) ==
    IF a = <<>> \/ b = <<>> THEN a \o b
    ELSE IF Head(a).TimestampMs < Head(b).TimestampMs
         THEN <<Head(a)>> \o mergeExemplarSets(Tail(a), b)
    ELSE IF Head(a).TimestampMs > Head(b).TimestampMs
         THEN <<Head(b)>> \o mergeExemplarSets(a, Tail(b))
    ELSE <<Head(a)>> \o mergeExemplarSets(Tail(a), Tail(b))

----------------------------------------------------------------------------
(* Series label sets and their canonical encoding, labels.Labels.Bytes:
   0xfe, then name 0xff value for each label, the labels separated by 0xff.
   Strings are sequences of bytes. *)

labelSep == 254

sep == 255

\* a="a" ; a="aa" ; a="a",b="a" ; a="b"
LabelSets == {
    <<[Name |-> <<97>>, Value |-> <<97>>]>>,
    <<[Name |-> <<97>>, Value |-> <<97, 97>>]>>,
    <<[Name |-> <<97>>, Value |-> <<97>>], [Name |-> <<98>>, Value |-> <<97>>]>>,
    <<[Name |-> <<97>>, Value |-> <<98>>]>> }

RECURSIVE LabelsBytesFrom(_, _)
LabelsBytesFrom(ls, i) ==
    IF i > Len(ls) THEN <<>>
    ELSE (IF i > 1 THEN <<sep>> ELSE <<>>)
         \o ls[i].Name \o <<sep>> \o ls[i].Value
         \o LabelsBytesFrom(ls, i + 1)

LabelsBytes(ls) == <<labelSep>> \o LabelsBytesFrom(ls, 1)

\* Go's < on strings: byte-wise, a proper prefix first.
RECURSIVE StringLess(_, _)
StringLess(s, t) ==
    IF t = <<>> THEN FALSE
    ELSE IF s = <<>> THEN TRUE
    ELSE IF Head(s) < Head(t) THEN TRUE
    ELSE IF Head(s) > Head(t) THEN FALSE
    ELSE StringLess(Tail(s), Tail(t))

RECURSIVE insertString(_, _)
insertString(k, sorted) ==
    IF sorted = <<>> THEN <<k>>
    ELSE IF StringLess(k, Head(sorted)) THEN <<k>> \o sorted
    ELSE <<Head(sorted)>> \o insertString(k, Tail(sorted))

RECURSIVE sortedStrings(_)
sortedStrings(keys) ==
    IF keys = <<>> THEN <<>>
    ELSE insertString(Head(keys), sortedStrings(Tail(keys)))

\* A mutant of sortStrings: the keys stay in the order of first sight.
sortStringsNone(keys) == keys

\* sort.Strings(keys)
sortStrings(keys) == sortedStrings(keys)

----------------------------------------------------------------------------
(* mergeExemplarQueryResponses *)

\* The zero value of cortexpb.TimeSeries.
zeroTimeSeries == [Labels |-> <<>>, Exemplars |-> <<>>]

\* One iteration of the inner loop: st holds keys and exemplarResults.
foldTimeSeries(st, ts) ==
    LET lbls == LabelsBytes(ts.Labels) IN
    IF lbls \notin DOMAIN st.exemplarResults
    THEN [keys |-> Append(st.keys, lbls),
          exemplarResults |-> (lbls :> ts) @@ st.exemplarResults]
    ELSE LET e == st.exemplarResults[lbls] IN
         [keys |-> st.keys,
          exemplarResults |-> [st.exemplarResults EXCEPT ![lbls] =
              [e EXCEPT !.Exemplars = mergeExemplarSets(e.Exemplars, ts.Exemplars)]]]

RECURSIVE foldResponse(_, _)
foldResponse(st, timeseries) ==
    IF timeseries = <<>> THEN st
    ELSE foldResponse(foldTimeSeries(st, Head(timeseries)), Tail(timeseries))

RECURSIVE foldResults(_, _)
foldResults(st, rs) ==
    IF rs = <<>> THEN st
    ELSE foldResults(foldResponse(st, Head(rs).Timeseries), Tail(rs))

\* result := make([]TimeSeries, len(exemplarResults)); result[i] = exemplarResults[k]
buildResult(keys, exemplarResults) ==
    LET n == Cardinality(DOMAIN exemplarResults) IN
    IF Len(keys) > n THEN [panic |-> "index out of range"]
    ELSE [i \in 1..n |->
            IF i <= Len(keys) THEN exemplarResults[keys[i]] ELSE zeroTimeSeries]

mergeExemplarQueryResponses(rs) ==
    LET st == foldResults([keys |-> <<>>, exemplarResults |-> <<>>], rs) IN
    [Timeseries |-> buildResult(sortStrings(st.keys), st.exemplarResults)]

----------------------------------------------------------------------------
(* Inputs of the reconciler: lists of responses holding MaxSeries series in
   all, each series with at most one exemplar *)

MaxSeries == 3

RespExemplars ==
    {s \in SortedExemplars :
        Len(s) <= 1 /\ \A i \in 1..Len(s) : s[i].Labels = "x" /\ s[i].Value = 0}

RespSeries == [Labels : LabelSets, Exemplars : RespExemplars]

\* flat cut into consecutive responses after the positions in cuts.
Responses(flat, cuts) ==
    LET RECURSIVE go(_, _)
        go(i, cur) ==
            IF i > Len(flat) THEN <<[Timeseries |-> cur]>>
            ELSE IF (i - 1) \in cuts
                 THEN <<[Timeseries |-> cur]>> \o go(i + 1, <<flat[i]>>)
            ELSE go(i + 1, Append(cur, flat[i]))
    IN go(1, <<>>)

\* The series of all responses, in the order the reconciler visits them.
RECURSIVE AllSeries(_)
AllSeries(rs) ==
    IF rs = <<>> THEN <<>> ELSE Head(rs).Timeseries \o AllSeries(Tail(rs))

Reverse(s) == [i \in 1..Len(s) |-> s[Len(s) + 1 - i]]

----------------------------------------------------------------------------
(* queryIngesterStream: the replication set, the streamed messages and the
   query limiter *)

\* The replication set of the query: three ingesters (replication factor 3).
Ingesters == {1, 2, 3}

\* Messages the replicas' streams deliver in one query, all streams together.
MaxMsgs == 2

\* The limits of the query limiter.
MaxChunksPerQuery == 3

MaxSeriesPerQuery == 1

MaxChunkBytesPerQuery == 1

MaxDataBytesPerQuery == 6

\* up="a" and up="b"
LabelsA == <<[Name |-> <<117, 112>>, Value |-> <<97>>]>>

LabelsB == <<[Name |-> <<117, 112>>, Value |-> <<98>>]>>

\* ingester_client.LabelsToKeyString(cortexpb.FromLabelAdaptersToLabels(labels))
LabelsToKeyString(ls) == LabelsBytes(ls)

\* A chunk is its payload, here a number that is also its size in bytes.
\* The QueryStreamResponse messages the replicas send.
Msgs == {
    [Chunkseries |-> <<[Labels |-> LabelsA, Chunks |-> <<1>>]>>,
     Timeseries  |-> <<>>],
    [Chunkseries |-> <<[Labels |-> LabelsA, Chunks |-> <<2>>],
                      [Labels |-> LabelsB, Chunks |-> <<1, 1>>]>>,
     Timeseries  |-> <<>>],
    [Chunkseries |-> <<>>,
     Timeseries  |-> <<[Labels  |-> LabelsA,
                       Samples |-> <<[TimestampMs |-> 1, Value |-> 0]>>]>>],
    [Chunkseries |-> <<[Labels |-> LabelsB, Chunks |-> <<1>>]>>,
     Timeseries  |-> <<[Labels  |-> LabelsA,
                       Samples |-> <<[TimestampMs |-> 1, Value |-> 1],
                                     [TimestampMs |-> 2, Value |-> 0]>>]>>] }

noMsg == [Chunkseries |-> <<>>, Timeseries |-> <<>>]

RECURSIVE Sum(_)
Sum(s) == IF s = <<>> THEN 0 ELSE Head(s) + Sum(Tail(s))

\* resp.ChunksCount(): the chunks of all chunk-series
ChunksCount(m) == Sum([i \in 1..Len(m.Chunkseries) |-> Len(m.Chunkseries[i].Chunks)])

\* resp.ChunksSize(): the bytes of all chunks
ChunksSize(m) == Sum([i \in 1..Len(m.Chunkseries) |-> Sum(m.Chunkseries[i].Chunks)])

\* resp.Size(): the bytes of the whole message
Size(m) ==
    ChunksSize(m) + Len(m.Chunkseries) + Len(m.Timeseries)
    + Sum([i \in 1..Len(m.Timeseries) |-> Len(m.Timeseries[i].Samples)])

\* queryLimiter.AddSeries for each series of a list, up to the first failure:
\* the set of label sets afterwards.
RECURSIVE AddSeriesAll(_, _)
AddSeriesAll(seen, series) ==
    IF series = <<>> THEN seen
    ELSE LET added == seen \cup {Head(series).Labels} IN
         IF Cardinality(added) > MaxSeriesPerQuery THEN added
         ELSE AddSeriesAll(added, Tail(series))

----------------------------------------------------------------------------
(* The aggregator's two accumulation maps *)

zeroTimeSeriesChunk == [Labels |-> <<>>, Chunks |-> <<>>]

zeroSeries == [Labels |-> <<>>, Samples |-> <<>>]

\* hashToChunkseries after the loop over the batch cs
RECURSIVE aggChunkseries(_, _)
aggChunkseries(m, cs) ==
    IF cs = <<>> THEN m
    ELSE LET series == Head(cs)
             key == LabelsToKeyString(series.Labels)
             existing == IF key \in DOMAIN m THEN m[key] ELSE zeroTimeSeriesChunk
         IN aggChunkseries(
                (key :> [Labels |-> series.Labels,
                         Chunks |-> existing.Chunks \o series.Chunks]) @@ m,
                Tail(cs))

\* hashToTimeSeries after the loop over the batch ts
RECURSIVE aggTimeseries(_, _)
aggTimeseries(m, ts) ==
    IF ts = <<>> THEN m
    ELSE LET series == Head(ts)
             key == LabelsToKeyString(series.Labels)
             existing == IF key \in DOMAIN m THEN m[key] ELSE zeroSeries
         IN aggTimeseries(
                (key :> [Labels |-> series.Labels,
                         Samples |-> aggSamples(existing.Samples, series.Samples)]) @@ m,
                Tail(ts))

Range(f) == {f[k] : k \in DOMAIN f}

noResp == [Chunkseries |-> {}, Timeseries |-> {}]

----------------------------------------------------------------------------
(* Values of the variables a specification does not use *)

PageIdle ==
    /\ mu = "free"
    /\ heap = <<>>
    /\ pagePc = <<>> /\ frame = <<>>
    /\ returned = 0
    /\ done = <<>> /\ doneAtLock = <<>>

StreamIdle ==
    /\ instances = {}
    /\ maxErrors = 0
    /\ budget = 0
    /\ cbPc = <<>> /\ cbMsg = <<>> /\ cbChk = <<>> /\ cbRes = <<>>
    /\ chunkCount = 0 /\ uniqueSeries = {} /\ chunkBytes = 0 /\ dataBytes = 0
    /\ chCS = <<>> /\ chTS = <<>> /\ queuedCS = 0 /\ queuedTS = 0
    /\ hashToChunkseries = <<>> /\ hashToTimeSeries = <<>>
    /\ aggPc = "idle" /\ wg = 0 /\ mainPc = "idle"
    /\ numSuccess = 0 /\ numErrs = 0 /\ err = "nil"
    /\ resp = noResp
    /\ ingesterQueries = <<>> /\ ingesterQueryFailures = <<>>

MergeIdle ==
    /\ op = "idle"
    /\ argA = <<>> /\ argB = <<>> /\ argC = <<>>
    /\ perm = <<>> /\ results = <<>> /\ ret = <<>>

noSet == [via |-> "none"]

EntryIdle ==
    /\ cfg = <<>>
    /\ orgID = "none"
    /\ matchers = <<>>
    /\ reqErr = FALSE
    /\ now = 0
    /\ replicationSet = [set |-> noSet, err |-> "nil"]

----------------------------------------------------------------------------
(* ExSpec: the exemplar merger and the exemplar response reconciler *)

ExInit ==
    /\ PageIdle
    /\ StreamIdle
    /\ EntryIdle
    /\ op = "init"
    /\ argC = <<>>
    /\ perm = <<>>
    /\ ret = <<>>
    /\ \/ /\ argA \in SortedExemplars
          /\ argB \in SortedExemplars
          /\ results = <<>>
       \/ /\ argA = <<>>
          /\ argB = <<>>
          /\ \E flat \in SeqsUpTo(RespSeries, MaxSeries) \ {<<>>} :
             \E cuts \in SUBSET (1..(Len(flat) - 1)) :
             \E empty \in BOOLEAN :
                results = Responses(flat, cuts)
                            \o (IF empty THEN <<[Timeseries |-> <<>>]>> ELSE <<>>)

CallMergeExemplarSets ==
    /\ op = "init"
    /\ results = <<>>
    /\ op' = "mergeExemplarSets"
    /\ ret' = mergeExemplarSets(argA, argB)
    /\ UNCHANGED <<argA, argB, argC, perm, results, streamVars, entryVars, pageVars>>

CallMergeExemplarQueryResponses ==
    /\ op = "init"
    /\ results # <<>>
    /\ op' = "mergeExemplarQueryResponses"
    /\ ret' = mergeExemplarQueryResponses(results).Timeseries
    /\ UNCHANGED <<argA, argB, argC, perm, results, streamVars, entryVars, pageVars>>

\* The series whose exemplars two replicas return.
SharedLabels == <<[Name |-> <<97>>, Value |-> <<97>>]>>

\* One response holding the shared series with the exemplars e.
ResponseOf(e) == [Timeseries |-> <<[Labels |-> SharedLabels, Exemplars |-> e]>>]

\* mergeExemplarQueryResponses on the responses of two replicas that hold the
\* same series, with exemplars argA and argB, folded in either order.
CallReconcileTwo ==
    /\ op = "init"
    /\ results = <<>>
    /\ \E p \in {<<1, 2>>, <<2, 1>>} :
        /\ perm' = p
        /\ results' = [i \in 1..2 |-> ResponseOf(<<argA, argB>>[p[i]])]
    /\ op' = "reconcileTwo"
    /\ ret' = mergeExemplarQueryResponses(results').Timeseries
    /\ UNCHANGED <<argA, argB, argC, streamVars, entryVars, pageVars>>

ExNext == CallMergeExemplarSets \/ CallMergeExemplarQueryResponses \/ CallReconcileTwo

ExSpec == ExInit /\ [][ExNext]_vars

----------------------------------------------------------------------------
(* MergeSpec *)

MergeInit ==
    /\ PageIdle
    /\ StreamIdle
    /\ EntryIdle
    /\ op = "init"
    /\ argA \in SortedSamples
    /\ argB \in SortedSamples
    /\ argC \in SortedSamples
    /\ perm = <<>>
    /\ results = <<>>
    /\ ret = <<>>

CallMergeSamples ==
    /\ op = "init"
    /\ op' = "mergeSamples"
    /\ ret' = mergeSamples(argA, argB)
    /\ UNCHANGED <<argA, argB, argC, perm, results, streamVars, entryVars, pageVars>>

CallFold ==
    /\ op = "init"
    /\ \E p \in Perms3 :
        /\ perm' = p
        /\ ret' = FoldIn(p, <<argA, argB, argC>>)
    /\ op' = "fold"
    /\ UNCHANGED <<argA, argB, argC, results, streamVars, entryVars, pageVars>>

MergeNext == CallMergeSamples \/ CallFold

MergeSpec == MergeInit /\ [][MergeNext]_vars

----------------------------------------------------------------------------
(* MatrixSpec: the merge of queryIngesters, keyed by model.Fingerprint *)

\* The fingerprint is computed to this many of its low bits.
FingerprintBits == 8

\* The low 16 bits of the FNV-1a constants offset64 = 14695981039346656037
\* and prime64 = 1099511628211.
offset64 == 8997

prime64 == 435

RECURSIVE xor(_, _)
xor(a, b) ==
    IF a = 0 THEN b
    ELSE IF b = 0 THEN a
    ELSE (((a % 2) + (b % 2)) % 2) + (2 * xor(a \div 2, b \div 2))

\* hashAdd: h ^= byte; h *= prime64, for each byte of the string
RECURSIVE hashAdd(_, _)
hashAdd(h, bytes) ==
    IF bytes = <<>> THEN h
    ELSE hashAdd((xor(h, Head(bytes)) * prime64) % (2 ^ FingerprintBits), Tail(bytes))

\* labelSetToFingerprint over the labels from position i on (sorted by name)
RECURSIVE fingerprintFrom(_, _, _)
fingerprintFrom(h, ls, i) ==
    IF i > Len(ls) THEN h
    ELSE fingerprintFrom(
            hashAdd(hashAdd(hashAdd(hashAdd(h, ls[i].Name), <<sep>>), ls[i].Value), <<sep>>),
            ls, i + 1)

\* ss.Metric.Fingerprint()
Fingerprint(metric) == fingerprintFrom(offset64 % (2 ^ FingerprintBits), metric, 1)

\* util.MergeSampleSets: merge by timestamp, one sample per timestamp, a's on a tie
MergeSampleSets(a, b) == mergeLoop(a, b)

\* a="a" ; a="b" ; a="el"
Metrics == {
    <<[Name |-> <<97>>, Value |-> <<97>>]>>,
    <<[Name |-> <<97>>, Value |-> <<98>>]>>,
    <<[Name |-> <<97>>, Value |-> <<101, 108>>]>> }

MaxStreams == 3

StreamValues == {v \in SortedSamples : \A i \in 1..Len(v) : v[i].Value = 0}

SampleStream == [Metric : Metrics, Values : StreamValues]

\* One iteration of the inner loop of the merge.
foldSampleStream(fpToSampleStream, ss) ==
    LET fp == Fingerprint(ss.Metric)
        mss == IF fp \in DOMAIN fpToSampleStream THEN fpToSampleStream[fp]
               ELSE [Metric |-> ss.Metric, Values |-> <<>>]
    IN (fp :> [mss EXCEPT !.Values = MergeSampleSets(mss.Values, ss.Values)])
       @@ fpToSampleStream

RECURSIVE foldMatrix(_, _)
foldMatrix(fpToSampleStream, matrix) ==
    IF matrix = <<>> THEN fpToSampleStream
    ELSE foldMatrix(foldSampleStream(fpToSampleStream, Head(matrix)), Tail(matrix))

RECURSIVE foldMatrices(_, _)
foldMatrices(fpToSampleStream, rs) ==
    IF rs = <<>> THEN fpToSampleStream
    ELSE foldMatrices(foldMatrix(fpToSampleStream, Head(rs)), Tail(rs))

\* The matrix queryIngesters returns for the results of Do: the values of
\* fpToSampleStream, in no particular order.
mergeMatrices(rs) ==
    LET m == foldMatrices(<<>>, rs) IN {m[fp] : fp \in DOMAIN m}

\* flat cut into consecutive matrices after the positions in cuts.
Matrices(flat, cuts) ==
    LET rs == Responses(flat, cuts) IN [i \in 1..Len(rs) |-> rs[i].Timeseries]

RECURSIVE AllStreams(_)
AllStreams(rs) ==
    IF rs = <<>> THEN <<>> ELSE Head(rs) \o AllStreams(Tail(rs))

MatrixInit ==
    /\ PageIdle
    /\ StreamIdle
    /\ EntryIdle
    /\ op = "init"
    /\ argA = <<>> /\ argB = <<>> /\ argC = <<>>
    /\ perm = <<>>
    /\ ret = <<>>
    /\ \E flat \in SeqsUpTo(SampleStream, MaxStreams) \ {<<>>} :
       \E cuts \in SUBSET (1..(Len(flat) - 1)) :
          results = Matrices(flat, cuts)

CallMergeMatrices ==
    /\ op = "init"
    /\ op' = "mergeMatrices"
    /\ ret' = mergeMatrices(results)
    /\ UNCHANGED <<argA, argB, argC, perm, results, streamVars, entryVars, pageVars>>

MatrixNext == CallMergeMatrices

MatrixSpec == MatrixInit /\ [][MatrixNext]_vars

----------------------------------------------------------------------------
(* AggSpec: the aggregator's two loops applied to a bounded sequence of
   batches, in the order it takes them off a channel. *)

MaxBatchSeries == 3

ChunkLists == {<<>>, <<1>>, <<2>>, <<1, 2>>}

\* ingester_client.TimeSeriesChunk
TimeSeriesChunk == [Labels : {LabelsA, LabelsB}, Chunks : ChunkLists]

\* cortexpb.TimeSeries with samples in strictly ascending timestamp order
TimeSeries == [Labels : {LabelsA, LabelsB}, Samples : StreamValues]

\* A mutant of aggregateChunkseries: an existing entry is kept as it is.
RECURSIVE aggregateChunkseriesKeepFirst(_, _)
aggregateChunkseriesKeepFirst(m, batches) ==
    IF batches = <<>> THEN m
    ELSE aggregateChunkseriesKeepFirst(
             m @@ aggChunkseries(<<>>, Head(batches)), Tail(batches))

\* hashToChunkseries after the aggregator has received the batches in order
RECURSIVE aggregateChunkseries(_, _)
aggregateChunkseries(m, batches) ==
    IF batches = <<>> THEN m
    ELSE aggregateChunkseries(aggChunkseries(m, Head(batches)), Tail(batches))

\* A mutant of aggregateTimeseries: the last batch only.
RECURSIVE aggregateTimeseriesLast(_, _)
aggregateTimeseriesLast(m, batches) ==
    IF batches = <<>> THEN m
    ELSE aggregateTimeseriesLast(aggTimeseries(<<>>, Head(batches)), Tail(batches))

\* hashToTimeSeries after the aggregator has received the batches in order
RECURSIVE aggregateTimeseries(_, _)
aggregateTimeseries(m, batches) ==
    IF batches = <<>> THEN m
    ELSE aggregateTimeseries(aggTimeseries(m, Head(batches)), Tail(batches))

AggInit ==
    /\ PageIdle
    /\ StreamIdle
    /\ EntryIdle
    /\ argA = <<>> /\ argB = <<>> /\ argC = <<>>
    /\ perm = <<>>
    /\ ret = <<>>
    /\ \/ /\ op = "initCS"
          /\ \E flat \in SeqsUpTo(TimeSeriesChunk, MaxBatchSeries) \ {<<>>} :
             \E cuts \in SUBSET (1..(Len(flat) - 1)) :
                results = Matrices(flat, cuts)
       \/ /\ op = "initTS"
          /\ \E flat \in SeqsUpTo(TimeSeries, MaxBatchSeries) \ {<<>>} :
             \E cuts \in SUBSET (1..(Len(flat) - 1)) :
                results = Matrices(flat, cuts)

CallAggregateChunkseries ==
    /\ op = "initCS"
    /\ op' = "aggregateChunkseries"
    /\ ret' = aggregateChunkseries(<<>>, results)
    /\ UNCHANGED <<argA, argB, argC, perm, results, streamVars, entryVars, pageVars>>

CallAggregateTimeseries ==
    /\ op = "initTS"
    /\ op' = "aggregateTimeseries"
    /\ ret' = aggregateTimeseries(<<>>, results)
    /\ UNCHANGED <<argA, argB, argC, perm, results, streamVars, entryVars, pageVars>>

AggNext == CallAggregateChunkseries \/ CallAggregateTimeseries

AggSpec == AggInit /\ [][AggNext]_vars

----------------------------------------------------------------------------
(* SelectSpec: the replica selection, GetIngestersForQuery and
   GetIngestersForMetadata.  The ring's answers are kept as terms: which ring
   method was called, and with which arguments. *)

ShardingStrategyShuffle == "shuffle-sharding"

MetricNameLabel == "__name__"

MatchEqual == "="

\* The latest instant time.Now() returns.
MaxNow == 1

Tenants == {"t1", "t2"}

\* d.cfg together with d.limits.IngestionTenantShardSize(userID)
Configs ==
    [ShardingStrategy : {"default", ShardingStrategyShuffle},
     ShardByAllLabels : BOOLEAN,
     ShuffleShardingLookbackPeriod : {-1, 0, 1},
     IngestionTenantShardSize : {-1, 0, 2}]

\* Matcher lists holding at most one matcher on the metric name.
MatcherLists == {
    <<>>,
    <<[Name |-> MetricNameLabel, Type |-> "=", Value |-> "up"]>>,
    <<[Name |-> MetricNameLabel, Type |-> "=~", Value |-> "up"]>>,
    <<[Name |-> MetricNameLabel, Type |-> "!=", Value |-> "up"]>>,
    <<[Name |-> "job", Type |-> "=", Value |-> "x"]>>,
    <<[Name |-> "job", Type |-> "=", Value |-> "x"],
      [Name |-> MetricNameLabel, Type |-> "=", Value |-> "up"]>> }

\* tenant.TenantID(ctx)
TenantID(id) ==
    IF id = "none" THEN [userID |-> "", err |-> "no org id"]
    ELSE [userID |-> id, err |-> "nil"]

\* extract.MetricNameMatcherFromMatchers: the matcher on the metric name
MetricNameMatcherFromMatchers(ms) ==
    LET idx == {i \in 1..Len(ms) : ms[i].Name = MetricNameLabel} IN
    IF idx = {} THEN [ok |-> FALSE, matcher |-> [Name |-> "", Type |-> "", Value |-> ""]]
    ELSE [ok |-> TRUE, matcher |-> ms[CHOOSE i \in idx : \A k \in idx : i <= k]]

\* d.ingestersRing.ShuffleShardWithLookback(userID, shardSize, lookbackPeriod,
\* time.Now()).GetReplicationSetForOperation(ring.Read)
ShuffleShardWithLookback(userID, shardSize, lookbackPeriod, t) ==
    [via |-> "ShuffleShardWithLookback", userID |-> userID, shardSize |-> shardSize,
     lookbackPeriod |-> lookbackPeriod, now |-> t]

\* d.ingestersRing.Get(shardByMetricName(userID, metricName), ring.Read, ...)
RingGet(userID, metricName) ==
    [via |-> "Get", key |-> <<userID, metricName>>]

\* d.ingestersRing.GetReplicationSetForOperation(ring.Read)
GetReplicationSetForOperation == [via |-> "GetReplicationSetForOperation"]

\* if ShardingStrategy == shuffle { if shardSize > 0 && lookbackPeriod > 0 {
UseShuffle(c) ==
    /\ c.ShardingStrategy = ShardingStrategyShuffle
    /\ c.IngestionTenantShardSize > 0
    /\ c.ShuffleShardingLookbackPeriod > 0

\* A mutant of GetIngestersForQuery: the metric-name routing comes first.
GetIngestersForQueryNameFirst(id, c, ms, t) ==
    LET tenant == TenantID(id)
        mn == MetricNameMatcherFromMatchers(ms)
    IN IF tenant.err # "nil" THEN [set |-> noSet, err |-> tenant.err]
       ELSE IF ~c.ShardByAllLabels /\ Len(ms) > 0 /\ mn.ok /\ mn.matcher.Type = MatchEqual
       THEN [set |-> RingGet(tenant.userID, mn.matcher.Value), err |-> "nil"]
       ELSE IF UseShuffle(c)
       THEN [set |-> ShuffleShardWithLookback(tenant.userID, c.IngestionTenantShardSize,
                                              c.ShuffleShardingLookbackPeriod, t),
             err |-> "nil"]
       ELSE [set |-> GetReplicationSetForOperation, err |-> "nil"]

GetIngestersForQuery(id, c, ms, t) ==
    LET tenant == TenantID(id)
        mn == MetricNameMatcherFromMatchers(ms)
    IN IF tenant.err # "nil" THEN [set |-> noSet, err |-> tenant.err]
       ELSE IF UseShuffle(c)
       THEN [set |-> ShuffleShardWithLookback(tenant.userID, c.IngestionTenantShardSize,
                                              c.ShuffleShardingLookbackPeriod, t),
             err |-> "nil"]
       ELSE IF ~c.ShardByAllLabels /\ Len(ms) > 0 /\ mn.ok /\ mn.matcher.Type = MatchEqual
       THEN [set |-> RingGet(tenant.userID, mn.matcher.Value), err |-> "nil"]
       ELSE [set |-> GetReplicationSetForOperation, err |-> "nil"]

\* A mutant of GetIngestersForMetadata: the shuffle shard is used whenever
\* the strategy is shuffle, whatever the shard size and the lookback.
GetIngestersForMetadataAlwaysShard(id, c, t) ==
    LET tenant == TenantID(id) IN
    IF tenant.err # "nil" THEN [set |-> noSet, err |-> tenant.err]
    ELSE IF c.ShardingStrategy = ShardingStrategyShuffle
    THEN [set |-> ShuffleShardWithLookback(tenant.userID, c.IngestionTenantShardSize,
                                           c.ShuffleShardingLookbackPeriod, t),
          err |-> "nil"]
    ELSE [set |-> GetReplicationSetForOperation, err |-> "nil"]

GetIngestersForMetadata(id, c, t) ==
    LET tenant == TenantID(id) IN
    IF tenant.err # "nil" THEN [set |-> noSet, err |-> tenant.err]
    ELSE IF UseShuffle(c)
    THEN [set |-> ShuffleShardWithLookback(tenant.userID, c.IngestionTenantShardSize,
                                           c.ShuffleShardingLookbackPeriod, t),
          err |-> "nil"]
    ELSE [set |-> GetReplicationSetForOperation, err |-> "nil"]

SelectInit ==
    /\ PageIdle
    /\ MergeIdle
    /\ StreamIdle
    /\ cfg \in Configs
    /\ orgID \in Tenants \cup {"none"}
    /\ matchers \in MatcherLists
    /\ reqErr = FALSE
    /\ now = 0
    /\ replicationSet = [set |-> noSet, err |-> "nil"]

\* The selection of Query and QueryStream: d.GetIngestersForQuery(ctx, matchers...)
CallGetIngestersForQuery ==
    /\ op = "idle"
    /\ op' = "GetIngestersForQuery"
    /\ \E t \in 0..MaxNow :
        /\ now' = t
        /\ replicationSet' = GetIngestersForQuery(orgID, cfg, matchers, t)
    /\ UNCHANGED <<argA, argB, argC, perm, results, ret, streamVars,
                   cfg, orgID, matchers, reqErr, pageVars>>

CallGetIngestersForMetadata ==
    /\ op = "idle"
    /\ op' = "GetIngestersForMetadata"
    /\ \E t \in 0..MaxNow :
        /\ now' = t
        /\ replicationSet' = GetIngestersForMetadata(orgID, cfg, t)
    /\ UNCHANGED <<argA, argB, argC, perm, results, ret, streamVars,
                   cfg, orgID, matchers, reqErr, pageVars>>

\* The selection of QueryExemplars: d.GetIngestersForQuery(ctx), without the
\* matchers of the request
CallQueryExemplarsSelect ==
    /\ op = "idle"
    /\ op' = "QueryExemplars"
    /\ \E t \in 0..MaxNow :
        /\ now' = t
        /\ replicationSet' = GetIngestersForQuery(orgID, cfg, <<>>, t)
    /\ UNCHANGED <<argA, argB, argC, perm, results, ret, streamVars,
                   cfg, orgID, matchers, reqErr, pageVars>>

SelectNext ==
    CallGetIngestersForQuery \/ CallGetIngestersForMetadata \/ CallQueryExemplarsSelect

SelectSpec == SelectInit /\ [][SelectNext]_vars

----------------------------------------------------------------------------
(* Spec: queryIngesterStream.  One callback per replica, started by
   replicationSet.Do; the aggregator goroutine; and the calling goroutine. *)

\* wg.Add(2)
WgAdd == 2

Init ==
    /\ PageIdle
    /\ MergeIdle
    /\ EntryIdle
    /\ instances = Ingesters
    /\ maxErrors \in {0, 1}
    /\ budget = MaxMsgs
    /\ cbPc = [r \in Ingesters |-> "start"]
    /\ cbMsg = [r \in Ingesters |-> noMsg]
    /\ cbChk = [r \in Ingesters |-> 0]
    /\ cbRes = [r \in Ingesters |-> "none"]
    /\ chunkCount = 0 /\ uniqueSeries = {} /\ chunkBytes = 0 /\ dataBytes = 0
    /\ chCS = <<>> /\ chTS = <<>> /\ queuedCS = 0 /\ queuedTS = 0
    /\ hashToChunkseries = <<>> /\ hashToTimeSeries = <<>>
    /\ aggPc = "run"
    /\ wg = WgAdd
    /\ mainPc = "do"
    /\ numSuccess = 0 /\ numErrs = 0 /\ err = "pending"
    /\ resp = noResp
    /\ ingesterQueries = [r \in Ingesters |-> 0]
    /\ ingesterQueryFailures = [r \in Ingesters |-> 0]

\* replicationSet.Do receiving one callback's outcome: it returns the results
\* once len(Instances) - MaxErrors callbacks succeeded, and the error that
\* exceeds MaxErrors; after that it reads no more outcomes.
DoCollect(kind) ==
    IF err # "pending" THEN UNCHANGED doVars
    ELSE IF kind = "ok"
    THEN /\ numSuccess' = numSuccess + 1
         /\ numErrs' = numErrs
         /\ err' = IF numSuccess + 1 >= Cardinality(instances) - maxErrors THEN "nil" ELSE "pending"
    ELSE /\ numErrs' = numErrs + 1
         /\ numSuccess' = numSuccess
         /\ err' = IF numErrs + 1 > maxErrors THEN kind ELSE "pending"

\* The callback of replica r returns kind: "ok" for (result, nil), else the error.
Return(r, kind) ==
    /\ cbPc' = [cbPc EXCEPT ![r] = "done"]
    /\ cbRes' = [cbRes EXCEPT ![r] = kind]
    /\ cbMsg' = [cbMsg EXCEPT ![r] = noMsg]
    /\ cbChk' = [cbChk EXCEPT ![r] = IF kind = "limit" THEN @ ELSE 0]
    /\ DoCollect(kind)

\* A mutant of GetClient: a failure to get a client is counted as a failure
\* of the replica.
GetClientCountsFailure(r) ==
    /\ r \in instances
    /\ cbPc[r] = "start"
    /\ \/ /\ Return(r, "client")
          /\ ingesterQueryFailures' = [ingesterQueryFailures EXCEPT ![r] = @ + 1]
          /\ UNCHANGED ingesterQueries
       \/ /\ cbPc' = [cbPc EXCEPT ![r] = "open"]
          /\ ingesterQueries' = [ingesterQueries EXCEPT ![r] = @ + 1]
          /\ UNCHANGED <<cbMsg, cbChk, cbRes, doVars, ingesterQueryFailures>>
    /\ UNCHANGED <<instances, maxErrors, budget, limiterVars, chanVars, mapVars, aggPc, wg,
                   mainPc, resp, mergeVars, entryVars, pageVars>>

\* d.ingesterPool.GetClientFor(ing.Addr), then d.ingesterQueries.Inc()
GetClient(r) ==
    /\ r \in instances
    /\ cbPc[r] = "start"
    /\ \/ /\ Return(r, "client")
          /\ UNCHANGED ingesterQueries
       \/ /\ cbPc' = [cbPc EXCEPT ![r] = "open"]
          /\ ingesterQueries' = [ingesterQueries EXCEPT ![r] = @ + 1]
          /\ UNCHANGED <<cbMsg, cbChk, cbRes, doVars>>
    /\ UNCHANGED <<instances, maxErrors, budget, limiterVars, chanVars, mapVars, aggPc, wg,
                   mainPc, resp, ingesterQueryFailures, mergeVars, entryVars, pageVars>>

\* client.QueryStream(ctx, req)
OpenStream(r) ==
    /\ r \in instances
    /\ cbPc[r] = "open"
    /\ \/ /\ cbPc' = [cbPc EXCEPT ![r] = "recv"]
          /\ UNCHANGED <<cbMsg, cbChk, cbRes, doVars, ingesterQueryFailures>>
       \/ \E kind \in {"rpc", "canceled"} :
          /\ ingesterQueryFailures' = [ingesterQueryFailures EXCEPT ![r] = @ + 1]
          /\ Return(r, kind)
    /\ UNCHANGED <<instances, maxErrors, budget, limiterVars, chanVars, mapVars, aggPc, wg,
                   mainPc, resp, ingesterQueries, mergeVars, entryVars, pageVars>>

\* stream.Recv(): a message, io.EOF or an error
Recv(r) ==
    /\ r \in instances
    /\ cbPc[r] = "recv"
    /\ \/ /\ Return(r, "ok")
          /\ UNCHANGED <<budget, ingesterQueryFailures>>
       \/ /\ Return(r, "canceled")
          /\ UNCHANGED <<budget, ingesterQueryFailures>>
       \/ /\ Return(r, "rpc")
          /\ ingesterQueryFailures' = [ingesterQueryFailures EXCEPT ![r] = @ + 1]
          /\ UNCHANGED budget
       \/ /\ budget > 0
          /\ \E m \in Msgs : cbMsg' = [cbMsg EXCEPT ![r] = m]
          /\ budget' = budget - 1
          /\ cbChk' = [cbChk EXCEPT ![r] = 1]
          /\ cbPc' = [cbPc EXCEPT ![r] = "check"]
          /\ UNCHANGED <<cbRes, doVars, ingesterQueryFailures>>
    /\ UNCHANGED <<instances, maxErrors, limiterVars, chanVars, mapVars, aggPc, wg,
                   mainPc, resp, ingesterQueries, mergeVars, entryVars, pageVars>>

\* The limiter's counters after the n-th limit check of message m.
LimiterAfter(n, m) ==
    [chunkCount   |-> IF n = 1 THEN chunkCount + ChunksCount(m) ELSE chunkCount,
     uniqueSeries |-> IF n = 2 THEN AddSeriesAll(uniqueSeries, m.Chunkseries)
                      ELSE IF n = 5 THEN AddSeriesAll(uniqueSeries, m.Timeseries)
                      ELSE uniqueSeries,
     chunkBytes   |-> IF n = 3 THEN chunkBytes + ChunksSize(m) ELSE chunkBytes,
     dataBytes    |-> IF n = 4 THEN dataBytes + Size(m) ELSE dataBytes]

\* Whether the n-th limit check of message m returns an error.
LimitExceeded(n, m) ==
    LET l == LimiterAfter(n, m) IN
    CASE n = 1 -> l.chunkCount > MaxChunksPerQuery
      [] n = 2 -> m.Chunkseries # <<>> /\ Cardinality(l.uniqueSeries) > MaxSeriesPerQuery
      [] n = 3 -> l.chunkBytes > MaxChunkBytesPerQuery
      [] n = 4 -> l.dataBytes > MaxDataBytesPerQuery
      [] n = 5 -> m.Timeseries # <<>> /\ Cardinality(l.uniqueSeries) > MaxSeriesPerQuery

\* A mutant of Check: the chunk-bytes check runs before the series check.
CheckBytesFirst(r) ==
    /\ r \in instances
    /\ cbPc[r] = "check"
    /\ LET n == cbChk[r]
           k == IF n = 2 THEN 3 ELSE IF n = 3 THEN 2 ELSE n
           l == LimiterAfter(k, cbMsg[r])
       IN /\ chunkCount' = l.chunkCount
          /\ uniqueSeries' = l.uniqueSeries
          /\ chunkBytes' = l.chunkBytes
          /\ dataBytes' = l.dataBytes
          /\ IF LimitExceeded(k, cbMsg[r])
             THEN Return(r, "limit")
             ELSE /\ cbChk' = [cbChk EXCEPT ![r] = IF n = 5 THEN 0 ELSE n + 1]
                  /\ cbPc' = [cbPc EXCEPT ![r] = IF n = 5 THEN "pushCS" ELSE "check"]
                  /\ UNCHANGED <<cbMsg, cbRes, doVars>>
    /\ UNCHANGED <<instances, maxErrors, budget, chanVars, mapVars, aggPc, wg,
                   mainPc, resp, counterVars, mergeVars, entryVars, pageVars>>

\* The next of the five limit checks of the message received: AddChunks,
\* AddSeries over the chunk-series, AddChunkBytes, AddDataBytes, AddSeries
\* over the time-series.
Check(r) ==
    /\ r \in instances
    /\ cbPc[r] = "check"
    /\ LET n == cbChk[r]
           l == LimiterAfter(n, cbMsg[r])
       IN /\ chunkCount' = l.chunkCount
          /\ uniqueSeries' = l.uniqueSeries
          /\ chunkBytes' = l.chunkBytes
          /\ dataBytes' = l.dataBytes
          /\ IF LimitExceeded(n, cbMsg[r])
             THEN Return(r, "limit")
             ELSE /\ cbChk' = [cbChk EXCEPT ![r] = IF n = 5 THEN 0 ELSE n + 1]
                  /\ cbPc' = [cbPc EXCEPT ![r] = IF n = 5 THEN "pushCS" ELSE "check"]
                  /\ UNCHANGED <<cbMsg, cbRes, doVars>>
    /\ UNCHANGED <<instances, maxErrors, budget, chanVars, mapVars, aggPc, wg,
                   mainPc, resp, counterVars, mergeVars, entryVars, pageVars>>

\* A mutant of PushCS: the callback folds its batch into the map itself.
PushCSIntoMap(r) ==
    /\ r \in instances
    /\ cbPc[r] = "pushCS"
    /\ hashToChunkseries' = aggChunkseries(hashToChunkseries, cbMsg[r].Chunkseries)
    /\ cbPc' = [cbPc EXCEPT ![r] = "pushTS"]
    /\ UNCHANGED <<instances, maxErrors, budget, cbMsg, cbChk, cbRes, limiterVars, chanVars,
                   hashToTimeSeries, aggPc, wg, mainPc, doVars, resp,
                   counterVars, mergeVars, entryVars, pageVars>>

\* A mutant of PushCS: the batch is sent whether or not it is empty.
PushCSAlways(r) ==
    /\ r \in instances
    /\ cbPc[r] = "pushCS"
    /\ Len(chCS) < Cardinality(instances)
    /\ chCS' = Append(chCS, cbMsg[r].Chunkseries)
    /\ cbPc' = [cbPc EXCEPT ![r] = "pushTS"]
    /\ UNCHANGED <<instances, maxErrors, budget, cbMsg, cbChk, cbRes, limiterVars, chTS,
                   queuedCS, queuedTS, mapVars, aggPc, wg, mainPc, doVars, resp,
                   counterVars, mergeVars, entryVars, pageVars>>

\* if len(resp.Chunkseries) > 0 { chCS <- resp.Chunkseries }
PushCS(r) ==
    /\ r \in instances
    /\ cbPc[r] = "pushCS"
    /\ IF cbMsg[r].Chunkseries # <<>>
       THEN /\ Len(chCS) < Cardinality(instances)
            /\ chCS' = Append(chCS, cbMsg[r].Chunkseries)
       ELSE UNCHANGED chCS
    /\ cbPc' = [cbPc EXCEPT ![r] = "pushTS"]
    /\ UNCHANGED <<instances, maxErrors, budget, cbMsg, cbChk, cbRes, limiterVars, chTS,
                   queuedCS, queuedTS, mapVars, aggPc, wg, mainPc, doVars, resp,
                   counterVars, mergeVars, entryVars, pageVars>>

\* if len(resp.Timeseries) > 0 { chTS <- resp.Timeseries }
PushTS(r) ==
    /\ r \in instances
    /\ cbPc[r] = "pushTS"
    /\ IF cbMsg[r].Timeseries # <<>>
       THEN /\ Len(chTS) < Cardinality(instances)
            /\ chTS' = Append(chTS, cbMsg[r].Timeseries)
       ELSE UNCHANGED chTS
    /\ cbPc' = [cbPc EXCEPT ![r] = "recv"]
    /\ cbMsg' = [cbMsg EXCEPT ![r] = noMsg]
    /\ UNCHANGED <<instances, maxErrors, budget, cbChk, cbRes, limiterVars, chCS,
                   queuedCS, queuedTS, mapVars, aggPc, wg, mainPc, doVars, resp,
                   counterVars, mergeVars, entryVars, pageVars>>

\* A mutant of AggRecvCS: the aggregator goes on receiving after its return.
AggRecvCSAfterReturn ==
    /\ chCS # <<>>
    /\ hashToChunkseries' = aggChunkseries(hashToChunkseries, Head(chCS))
    /\ chCS' = Tail(chCS)
    /\ queuedCS' = IF queuedCS > 0 THEN queuedCS - 1 ELSE 0
    /\ UNCHANGED <<instances, maxErrors, budget, cbVars, limiterVars, chTS, queuedTS, hashToTimeSeries,
                   aggPc, wg, mainPc, doVars, resp, counterVars, mergeVars, entryVars, pageVars>>

\* case cs := <-chCS
AggRecvCS ==
    /\ aggPc = "run"
    /\ chCS # <<>>
    /\ hashToChunkseries' = aggChunkseries(hashToChunkseries, Head(chCS))
    /\ chCS' = Tail(chCS)
    /\ queuedCS' = IF queuedCS > 0 THEN queuedCS - 1 ELSE 0
    /\ UNCHANGED <<instances, maxErrors, budget, cbVars, limiterVars, chTS, queuedTS, hashToTimeSeries,
                   aggPc, wg, mainPc, doVars, resp, counterVars, mergeVars, entryVars, pageVars>>

\* case ts := <-chTS
AggRecvTS ==
    /\ aggPc = "run"
    /\ chTS # <<>>
    /\ hashToTimeSeries' = aggTimeseries(hashToTimeSeries, Head(chTS))
    /\ chTS' = Tail(chTS)
    /\ queuedTS' = IF queuedTS > 0 THEN queuedTS - 1 ELSE 0
    /\ UNCHANGED <<instances, maxErrors, budget, cbVars, limiterVars, chCS, queuedCS, hashToChunkseries,
                   aggPc, wg, mainPc, doVars, resp, counterVars, mergeVars, entryVars, pageVars>>

\* replicationSet.Do returns to queryIngesterStream, which goes on to
\* doneCh <- struct{}{}
DoReturn ==
    /\ mainPc = "do"
    /\ err # "pending"
    /\ mainPc' = "signal"
    /\ queuedCS' = Len(chCS)
    /\ queuedTS' = Len(chTS)
    /\ UNCHANGED <<instances, maxErrors, budget, cbVars, limiterVars, chCS, chTS, mapVars, aggPc, wg,
                   doVars, resp, counterVars, mergeVars, entryVars, pageVars>>

\* What queryIngesterStream does once wg.Wait() has returned: close(doneCh),
\* return the error of Do, or else the response built from the two maps.
Response ==
    IF err # "nil" THEN noResp
    ELSE [Chunkseries |-> Range(hashToChunkseries),
          Timeseries  |-> Range(hashToTimeSeries)]

\* case <-doneCh: return, with its deferred wg.Done(), together with the send
\* doneCh <- struct{}{} of the calling goroutine (doneCh is unbuffered)
AggRecvDone ==
    /\ aggPc = "run"
    /\ mainPc = "signal"
    /\ aggPc' = "done"
    /\ wg' = wg - 1
    /\ mainPc' = "wait"
    /\ UNCHANGED <<instances, maxErrors, budget, cbVars, limiterVars, chanVars,
                   mapVars, doVars, resp, counterVars, mergeVars, entryVars, pageVars>>

\* wg.Wait(): returns when the counter is zero, else the caller stays parked
\* (no goroutine is left to call wg.Done()); then close(doneCh) and the return
WgWait ==
    /\ mainPc = "wait"
    /\ IF wg = 0
       THEN mainPc' = "returned" /\ resp' = Response
       ELSE mainPc' = "parked" /\ UNCHANGED resp
    /\ UNCHANGED <<instances, maxErrors, budget, cbVars, limiterVars, chanVars,
                   mapVars, aggPc, wg, doVars, counterVars, mergeVars, entryVars, pageVars>>

Callback(r) ==
    \/ GetClient(r)
    \/ OpenStream(r)
    \/ Recv(r)
    \/ Check(r)
    \/ PushCS(r)
    \/ PushTS(r)

Aggregator == AggRecvCS \/ AggRecvTS \/ AggRecvDone

Next ==
    \/ \E r \in Ingesters : Callback(r)
    \/ Aggregator
    \/ DoReturn
    \/ WgWait

Spec == Init /\ [][Next]_vars

----------------------------------------------------------------------------
(* PushSpec: queryIngesterStream over a replication set of two instances,
   whose channels hold two batches each, with one message more than Spec. *)

TwoInstances == {1, 2}

PushInit ==
    /\ PageIdle
    /\ MergeIdle
    /\ EntryIdle
    /\ instances = TwoInstances
    /\ maxErrors \in {0, 1}
    /\ budget = MaxMsgs + 1
    /\ cbPc = [r \in Ingesters |-> "start"]
    /\ cbMsg = [r \in Ingesters |-> noMsg]
    /\ cbChk = [r \in Ingesters |-> 0]
    /\ cbRes = [r \in Ingesters |-> "none"]
    /\ chunkCount = 0 /\ uniqueSeries = {} /\ chunkBytes = 0 /\ dataBytes = 0
    /\ chCS = <<>> /\ chTS = <<>> /\ queuedCS = 0 /\ queuedTS = 0
    /\ hashToChunkseries = <<>> /\ hashToTimeSeries = <<>>
    /\ aggPc = "run"
    /\ wg = WgAdd
    /\ mainPc = "do"
    /\ numSuccess = 0 /\ numErrs = 0 /\ err = "pending"
    /\ resp = noResp
    /\ ingesterQueries = [r \in Ingesters |-> 0]
    /\ ingesterQueryFailures = [r \in Ingesters |-> 0]

PushSpec == PushInit /\ [][Next]_vars

----------------------------------------------------------------------------
(* QuerySpec: the three operations Query, QueryExemplars and QueryStream from
   their entry: conversion of the request, replica selection, then the engine.
   The engines of Query and QueryExemplars run here to their return, with one
   callback per replica; queryIngesterStream is entered and goes on as in
   Spec. *)

Operations == {"Query", "QueryExemplars", "QueryStream"}

\* What one replica answers to Query: a matrix (ingester_client.FromQueryResponse)
ReplicaMatrices == {
    <<[Metric |-> LabelsA, Values |-> <<[TimestampMs |-> 1, Value |-> 0]>>]>>,
    <<[Metric |-> LabelsA, Values |-> <<[TimestampMs |-> 1, Value |-> 0],
                                        [TimestampMs |-> 2, Value |-> 0]>>],
      [Metric |-> LabelsB, Values |-> <<[TimestampMs |-> 2, Value |-> 0]>>]>> }

\* What one replica answers to QueryExemplars
ReplicaExemplars == {
    ResponseOf(<<[TimestampMs |-> 1, Labels |-> "x", Value |-> 0]>>),
    ResponseOf(<<[TimestampMs |-> 2, Labels |-> "x", Value |-> 1]>>) }

ReplicaAnswers(o) == IF o = "Query" THEN ReplicaMatrices ELSE ReplicaExemplars

\* The configurations the operations run under.
QueryConfigs ==
    {c \in Configs : /\ c.ShardByAllLabels
                     /\ c.ShuffleShardingLookbackPeriod = 1
                     /\ c.IngestionTenantShardSize = 2}

QueryInit ==
    /\ PageIdle
    /\ op \in Operations
    /\ argA = <<>> /\ argB = <<>> /\ argC = <<>>
    /\ perm = <<>> /\ results = <<>> /\ ret = <<>>
    /\ cfg \in QueryConfigs
    /\ orgID \in {"none", "t1"}
    /\ matchers = <<[Name |-> MetricNameLabel, Type |-> "=", Value |-> "up"]>>
    /\ reqErr \in BOOLEAN
    /\ now = 0
    /\ replicationSet = [set |-> noSet, err |-> "nil"]
    /\ instances = {}
    /\ maxErrors \in {0, 1}
    /\ budget = 0
    /\ cbPc = [r \in Ingesters |-> "idle"]
    /\ cbMsg = [r \in Ingesters |-> noMsg]
    /\ cbChk = [r \in Ingesters |-> 0]
    /\ cbRes = [r \in Ingesters |-> "none"]
    /\ chunkCount = 0 /\ uniqueSeries = {} /\ chunkBytes = 0 /\ dataBytes = 0
    /\ chCS = <<>> /\ chTS = <<>> /\ queuedCS = 0 /\ queuedTS = 0
    /\ hashToChunkseries = <<>> /\ hashToTimeSeries = <<>>
    /\ aggPc = "idle"
    /\ wg = 0
    /\ mainPc = "convert"
    /\ numSuccess = 0 /\ numErrs = 0 /\ err = "pending"
    /\ resp = noResp
    /\ ingesterQueries = [r \in Ingesters |-> 0]
    /\ ingesterQueryFailures = [r \in Ingesters |-> 0]

\* A mutant of ToRequest: a failed conversion is not looked at.
ToRequestIgnoreErr ==
    /\ mainPc = "convert"
    /\ mainPc' = "select"
    /\ UNCHANGED <<mergeVars, instances, maxErrors, budget, cbVars, limiterVars, chanVars,
                   mapVars, aggPc, wg, doVars, resp, counterVars, entryVars, pageVars>>

\* ingester_client.ToQueryRequest / ToExemplarQueryRequest; if err != nil { return err }
ToRequest ==
    /\ mainPc = "convert"
    /\ IF reqErr
       THEN mainPc' = "returned" /\ err' = "input"
       ELSE mainPc' = "select" /\ UNCHANGED err
    /\ UNCHANGED <<mergeVars, instances, maxErrors, budget, cbVars, limiterVars, chanVars,
                   mapVars, aggPc, wg, numSuccess, numErrs, resp, counterVars, entryVars, pageVars>>

\* d.GetIngestersForQuery; if err != nil { return err }; else the engine is
\* called: replicationSet.Do starts the callbacks, and queryIngesterStream
\* first makes its channels and starts the aggregator goroutine.
SelectAndStart ==
    /\ mainPc = "select"
    /\ \E t \in 0..MaxNow :
        /\ now' = t
        /\ replicationSet' =
              GetIngestersForQuery(orgID, cfg,
                                   IF op = "QueryExemplars" THEN <<>> ELSE matchers, t)
    /\ IF replicationSet'.err # "nil"
       THEN /\ mainPc' = "returned"
            /\ err' = replicationSet'.err
            /\ UNCHANGED <<instances, cbPc, aggPc, wg>>
       ELSE /\ mainPc' = "do"
            /\ instances' = Ingesters
            /\ cbPc' = [r \in Ingesters |-> "start"]
            /\ aggPc' = IF op = "QueryStream" THEN "run" ELSE aggPc
            /\ wg' = IF op = "QueryStream" THEN WgAdd ELSE wg
            /\ UNCHANGED err
    /\ UNCHANGED <<mergeVars, maxErrors, budget, cbMsg, cbChk, cbRes, limiterVars, chanVars,
                   mapVars, numSuccess, numErrs, resp, counterVars,
                   cfg, orgID, matchers, reqErr, pageVars>>

\* The callback of queryIngesters / queryIngestersExemplars:
\* d.ingesterPool.GetClientFor(ing.Addr)
QGetClient(r) ==
    /\ op \in {"Query", "QueryExemplars"}
    /\ r \in instances
    /\ cbPc[r] = "start"
    /\ \/ Return(r, "client")
       \/ /\ cbPc' = [cbPc EXCEPT ![r] = "rpc"]
          /\ UNCHANGED <<cbMsg, cbChk, cbRes, doVars>>
    /\ UNCHANGED <<mergeVars, instances, maxErrors, budget, limiterVars, chanVars, mapVars,
                   aggPc, wg, mainPc, resp, counterVars, entryVars, pageVars>>

\* client.Query / client.QueryExemplars, d.ingesterQueries.Inc(), and on an
\* error d.ingesterQueryFailures.Inc(); Do keeps the result of a success.
QCall(r) ==
    /\ op \in {"Query", "QueryExemplars"}
    /\ r \in instances
    /\ cbPc[r] = "rpc"
    /\ ingesterQueries' = [ingesterQueries EXCEPT ![r] = @ + 1]
    /\ \/ \E kind \in {"rpc", "canceled"} :
            /\ ingesterQueryFailures' = [ingesterQueryFailures EXCEPT ![r] = @ + 1]
            /\ Return(r, kind)
            /\ UNCHANGED results
       \/ \E answer \in ReplicaAnswers(op) :
            /\ Return(r, "ok")
            /\ results' = IF err = "pending" THEN Append(results, answer) ELSE results
            /\ UNCHANGED ingesterQueryFailures
    /\ UNCHANGED <<op, argA, argB, argC, perm, ret, instances, maxErrors, budget, limiterVars,
                   chanVars, mapVars, aggPc, wg, mainPc, resp, entryVars, pageVars>>

\* replicationSet.Do returns; if err != nil { return nil, err }; else the
\* results are merged and returned.
QReturn ==
    /\ op \in {"Query", "QueryExemplars"}
    /\ mainPc = "do"
    /\ err # "pending"
    /\ mainPc' = "returned"
    /\ ret' = IF err # "nil" THEN ret
              ELSE IF op = "Query" THEN mergeMatrices(results)
              ELSE mergeExemplarQueryResponses(results).Timeseries
    /\ UNCHANGED <<op, argA, argB, argC, perm, results, instances, maxErrors, budget, cbVars,
                   limiterVars, chanVars, mapVars, aggPc, wg, doVars, resp, counterVars,
                   entryVars, pageVars>>

QCallback(r) == QGetClient(r) \/ QCall(r)

QueryNext ==
    \/ ToRequest
    \/ SelectAndStart
    \/ \E r \in Ingesters : QCallback(r)
    \/ QReturn

QuerySpec == QueryInit /\ [][QueryNext]_vars

----------------------------------------------------------------------------
(* ReadSpec: the three operations with their engines: QuerySpec, with the
   streaming engine running wherever its aggregator has been started, and
   the streaming engine of Spec with its messages. *)

ReadInit == QueryInit \/ Init

StreamEngine == aggPc # "idle" /\ Next

ReadNext == QueryNext \/ StreamEngine

ReadSpec == ReadInit /\ [][ReadNext]_vars

----------------------------------------------------------------------------
(* PageSpec: IndexPageContent of pkg/api/handlers.go, with concurrent
   callers of AddLink and one caller of GetContent who then writes to the
   map it was given.  A Go map is a reference: a map value here is an
   address into heap, and pc.content maps sections to addresses of maps. *)

MaxAddLinks == 2

SectionAdminEndpoints == "Admin Endpoints:"

SectionDangerous == "Dangerous:"

Sections == <<SectionAdminEndpoints, SectionDangerous>>

Paths == {"/a", "/b"}

Descriptions == {"x", "y"}

\* The arguments of one AddLink call
Links == [section : {Sections[i] : i \in 1..Len(Sections)},
          path : Paths, description : Descriptions]

Adders == {"add1", "add2"}

Getter == "get"

\* pc.content: the address of the map newIndexPageContent made
content == 1

noLink == [section |-> "", path |-> "", description |-> ""]

noFrame == [link |-> noLink, sectionMap |-> 0, result |-> 0]

PageInit ==
    /\ StreamIdle
    /\ MergeIdle
    /\ EntryIdle
    /\ mu = "free"
    /\ heap = << <<>> >>
    /\ pagePc = [p \in Adders \cup {Getter} |-> "idle"]
    /\ frame = [p \in Adders \cup {Getter} |-> noFrame]
    /\ returned = 0
    /\ done = <<>>
    /\ doneAtLock = <<>>

\* AddLink is called and takes the lock: pc.mu.Lock()
AddLinkLock(a) ==
    /\ pagePc[a] = "idle"
    /\ Len(done) + Cardinality({b \in Adders : pagePc[b] # "idle"}) < MaxAddLinks
    /\ mu = "free"
    /\ mu' = a
    /\ \E l \in Links : frame' = [frame EXCEPT ![a] = [noFrame EXCEPT !.link = l]]
    /\ pagePc' = [pagePc EXCEPT ![a] = "lookup"]
    /\ UNCHANGED <<heap, returned, done, doneAtLock, mergeVars, streamVars, entryVars>>

\* sectionMap := pc.content[section]; if nil, a new map is made and stored
AddLinkLookup(a) ==
    /\ pagePc[a] = "lookup"
    /\ LET section == frame[a].link.section IN
       IF section \in DOMAIN heap[content]
       THEN /\ frame' = [frame EXCEPT ![a].sectionMap = heap[content][section]]
            /\ UNCHANGED heap
       ELSE /\ frame' = [frame EXCEPT ![a].sectionMap = Len(heap) + 1]
            /\ heap' = Append([heap EXCEPT ![content] = (section :> (Len(heap) + 1)) @@ @],
                              <<>>)
    /\ pagePc' = [pagePc EXCEPT ![a] = "store"]
    /\ UNCHANGED <<mu, returned, done, doneAtLock, mergeVars, streamVars, entryVars>>

\* sectionMap[path] = description
AddLinkStore(a) ==
    /\ pagePc[a] = "store"
    /\ heap' = [heap EXCEPT ![frame[a].sectionMap] =
                    (frame[a].link.path :> frame[a].link.description) @@ @]
    /\ pagePc' = [pagePc EXCEPT ![a] = "unlock"]
    /\ UNCHANGED <<mu, frame, returned, done, doneAtLock, mergeVars, streamVars, entryVars>>

\* defer pc.mu.Unlock(), and AddLink returns
AddLinkUnlock(a) ==
    /\ pagePc[a] = "unlock"
    /\ mu' = "free"
    /\ done' = Append(done, frame[a].link)
    /\ frame' = [frame EXCEPT ![a] = noFrame]
    /\ pagePc' = [pagePc EXCEPT ![a] = "idle"]
    /\ UNCHANGED <<heap, returned, doneAtLock, mergeVars, streamVars, entryVars>>

\* GetContent is called and takes the lock: pc.mu.Lock()
GetContentLock ==
    /\ pagePc[Getter] = "idle"
    /\ mu = "free"
    /\ mu' = Getter
    /\ doneAtLock' = done
    /\ pagePc' = [pagePc EXCEPT ![Getter] = "copy"]
    /\ UNCHANGED <<heap, frame, returned, done, mergeVars, streamVars, entryVars>>

\* The sections of pc.content, in the order the copy visits them.
ContentKeys == SelectSeq(Sections, LAMBDA k : k \in DOMAIN heap[content])

\* The position of section k in ContentKeys.
KeyIndex(k) == CHOOSE i \in 1..Len(ContentKeys) : ContentKeys[i] = k

\* A mutant of GetContentCopy: result[k] = v, the stored section map itself.
GetContentCopyShallow ==
    /\ pagePc[Getter] = "copy"
    /\ heap' = Append(heap, heap[content])
    /\ frame' = [frame EXCEPT ![Getter].result = Len(heap) + 1]
    /\ pagePc' = [pagePc EXCEPT ![Getter] = "unlock"]
    /\ UNCHANGED <<mu, returned, done, doneAtLock, mergeVars, streamVars, entryVars>>

\* result := map[...]{}; for k, v := range pc.content: a new map sm with
\* every entry of v, result[k] = sm
GetContentCopy ==
    /\ pagePc[Getter] = "copy"
    /\ LET result == Len(heap) + 1 IN
       /\ heap' = Append(heap, [k \in DOMAIN heap[content] |-> result + KeyIndex(k)])
                     \o [i \in 1..Len(ContentKeys) |-> heap[heap[content][ContentKeys[i]]]]
       /\ frame' = [frame EXCEPT ![Getter].result = result]
    /\ pagePc' = [pagePc EXCEPT ![Getter] = "unlock"]
    /\ UNCHANGED <<mu, returned, done, doneAtLock, mergeVars, streamVars, entryVars>>

\* defer pc.mu.Unlock(), and return result
GetContentUnlock ==
    /\ pagePc[Getter] = "unlock"
    /\ mu' = "free"
    /\ returned' = frame[Getter].result
    /\ frame' = [frame EXCEPT ![Getter] = noFrame]
    /\ pagePc' = [pagePc EXCEPT ![Getter] = "returned"]
    /\ UNCHANGED <<heap, done, doneAtLock, mergeVars, streamVars, entryVars>>

\* The caller of GetContent writes a link into the map it was given.
WriteReturned ==
    /\ pagePc[Getter] = "returned"
    /\ \E l \in Links :
        IF l.section \in DOMAIN heap[returned]
        THEN heap' = [heap EXCEPT ![heap[returned][l.section]] =
                         (l.path :> l.description) @@ @]
        ELSE heap' = Append([heap EXCEPT ![returned] = (l.section :> (Len(heap) + 1)) @@ @],
                            (l.path :> l.description))
    /\ pagePc' = [pagePc EXCEPT ![Getter] = "written"]
    /\ UNCHANGED <<mu, frame, returned, done, doneAtLock, mergeVars, streamVars, entryVars>>

AddLink(a) == AddLinkLock(a) \/ AddLinkLookup(a) \/ AddLinkStore(a) \/ AddLinkUnlock(a)

GetContent == GetContentLock \/ GetContentCopy \/ GetContentUnlock

PageNext ==
    \/ \E a \in Adders : AddLink(a)
    \/ GetContent
    \/ WriteReturned

PageSpec == PageInit /\ [][PageNext]_vars

----------------------------------------------------------------------------
(* C1: no data is dropped at shutdown: every batch that was pushed onto chCS
   or chTS before the stop signal is sent (here: already before Do returned)
   has been folded into the maps by the time the aggregator exits. *)
C1_DrainedBeforeExit ==
    aggPc = "done" => queuedCS = 0 /\ queuedTS = 0

(* C2: queryIngesterStream terminates: after Do has returned, the aggregator
   is signalled, wg.Wait() completes and the operation returns; it never
   comes to a stop before it has returned. *)
C2_Terminates ==
    mainPc = "returned" \/ ENABLED Next

(* C3: a limit violation is fatal to the whole query: once Do has returned,
   if a limiter check failed on any replica's stream, the operation fails
   (its error is not nil, so no merged response is built), whatever the
   replication set tolerates. *)
C3_LimitErrorIsFatal ==
    (mainPc # "do" /\ \E r \in instances : cbRes[r] = "limit") =>
        err # "nil" /\ resp = noResp

(* C4: the stop signal is consumed by the aggregator only after every
   replica callback has returned: none is still running or pushing. *)
C4_StopAfterAllCallbacks ==
    aggPc = "done" => \A r \in instances : cbPc[r] = "done"

----------------------------------------------------------------------------
(* C5: for sorted duplicate-free A and B, mergeSamples(A,B) is sorted
   ascending, has no two samples with equal timestamps, and its set of
   timestamps is the union of A's and B's timestamps. *)
C5_MergeSortedUnion ==
    op = "mergeSamples" =>
        /\ IsSorted(ret)
        /\ TimestampsOf(ret) = TimestampsOf(argA) \cup TimestampsOf(argB)

\* Both inputs non-empty, overlapping in one timestamp and not in another.
C5_Witness ==
    /\ op = "mergeSamples"
    /\ TimestampsOf(argA) \cap TimestampsOf(argB) # {}
    /\ TimestampsOf(argA) \ TimestampsOf(argB) # {}
    /\ Len(ret) = MaxTs

(* C6: when a timestamp occurs in both A and B, mergeSamples(A,B) holds
   exactly one sample with that timestamp, and it is A's sample. *)
C6_TieKeepsLeft ==
    op = "mergeSamples" =>
        \A i \in 1..Len(argA), j \in 1..Len(argB) :
            argA[i].TimestampMs = argB[j].TimestampMs =>
                /\ Cardinality({k \in 1..Len(ret) :
                        ret[k].TimestampMs = argA[i].TimestampMs}) = 1
                /\ \E k \in 1..Len(ret) : ret[k] = argA[i]

\* A shared timestamp at which the two values differ, next to an unshared one.
C6_Witness ==
    /\ op = "mergeSamples"
    /\ \E i \in 1..Len(argA), j \in 1..Len(argB) :
        /\ argA[i].TimestampMs = argB[j].TimestampMs
        /\ argA[i].Value # argB[j].Value
    /\ Len(argB) > 1

(* C7: mergeSamples(A,A) = A; and whenever A and B are element-wise
   identical (the fast path is taken, or would be but for a NaN) the value
   returned is A, which is also what the merge loop produces. *)
C7_MergeIdempotent ==
    /\ (op = "mergeSamples" /\ argA = argB) => ret = argA
    /\ (op = "mergeSamples" /\ sameSamples(argA, argB)) =>
            ret = argA /\ ret = mergeLoop(argA, argB)

\* The fast path is taken on two identical sequences of full length.
C7_Witness ==
    /\ op = "mergeSamples"
    /\ argA = argB
    /\ sameSamples(argA, argB)
    /\ Len(argA) = MaxTs

\* The replicas carry the same value wherever they share a timestamp.
ReplicasAgree(s) ==
    \A m, n \in 1..Len(s) : \A i \in 1..Len(s[m]), j \in 1..Len(s[n]) :
        s[m][i].TimestampMs = s[n][j].TimestampMs => s[m][i].Value = s[n][j].Value

(* C8 as stated: every permutation of the fold order yields the same
   sequence of (timestamp, value) samples. *)
C8_FoldAnyOrderSameSamples ==
    op = "fold" =>
        \A p \in Perms3 : FoldIn(p, <<argA, argB, argC>>) = ret

(* C8 as amended: every permutation of the fold order yields the same
   sequence of timestamps, and the same sequence of samples when the replicas
   carry equal values at every timestamp they share. *)
C8_FoldOrderIndependent ==
    op = "fold" =>
        LET agree == ReplicasAgree(<<argA, argB, argC>>) IN
        \A p \in Perms3 :
            LET folded == FoldIn(p, <<argA, argB, argC>>) IN
            /\ TsSeq(folded) = TsSeq(ret)
            /\ agree => folded = ret

\* Three different non-empty sequences that agree on a shared timestamp,
\* folded in another order than they were given.
C8_Witness ==
    /\ op = "fold"
    /\ perm # <<1, 2, 3>>
    /\ argA # argB /\ argB # argC /\ argA # argC
    /\ argA # <<>> /\ argB # <<>> /\ argC # <<>>
    /\ TimestampsOf(argA) \cap TimestampsOf(argB) # {}
    /\ ReplicasAgree(<<argA, argB, argC>>)
    /\ Len(ret) = MaxTs

(* C9: mergeExemplarSets(a,b) drops an exemplar only if it matches another
   in every field: an exemplar of b that differs from every exemplar of a
   in some field appears in the output. *)
C9_DropsOnlyExactDuplicates ==
    op = "mergeExemplarSets" =>
        \A j \in 1..Len(argB) :
            (\A i \in 1..Len(argA) : argA[i] # argB[j]) =>
                \E k \in 1..Len(ret) : ret[k] = argB[j]

\* The label-set keys of the series of a list of series.
KeysOf(timeseries) == {LabelsBytes(timeseries[i].Labels) : i \in 1..Len(timeseries)}

KeySeq(timeseries) == [i \in 1..Len(timeseries) |-> LabelsBytes(timeseries[i].Labels)]

(* C10: mergeExemplarQueryResponses returns exactly one entry per distinct
   series label set of the inputs (none missing, none repeated, no empty
   placeholder), ordered by the lexicographic order of the label-set
   encoding, whatever the order of the input responses. *)
C10_OneEntryPerSeriesSorted ==
    op = "mergeExemplarQueryResponses" =>
        /\ Len(ret) = Cardinality(KeysOf(AllSeries(results)))
        /\ KeysOf(ret) = KeysOf(AllSeries(results))
        /\ \A i \in 1..Len(ret) : ret[i].Labels \in LabelSets
        /\ \A i \in 1..(Len(ret) - 1) :
                StringLess(LabelsBytes(ret[i].Labels), LabelsBytes(ret[i + 1].Labels))
        /\ KeySeq(mergeExemplarQueryResponses(Reverse(results)).Timeseries) = KeySeq(ret)

\* Several responses, a series that two of them hold, and series first seen
\* in another order than that of their keys.
C10_Witness ==
    /\ op = "mergeExemplarQueryResponses"
    /\ Len(results) >= 2
    /\ Len(ret) >= 2
    /\ Len(AllSeries(results)) > Len(ret)
    /\ StringLess(LabelsBytes(AllSeries(results)[2].Labels),
                  LabelsBytes(AllSeries(results)[1].Labels))

(* C11: two replica responses holding the same series with sorted exemplar
   lists over disjoint timestamps reconcile to one series whose exemplar list
   is the union of both lists in ascending timestamp order, whichever
   response is folded in first. *)
C11_DisjointExemplarsUnion ==
    (op = "reconcileTwo" /\ TimestampsOf(argA) \cap TimestampsOf(argB) = {}) =>
        /\ Len(ret) = 1
        /\ ret[1].Labels = SharedLabels
        /\ IsSorted(ret[1].Exemplars)
        /\ Len(ret[1].Exemplars) = Len(argA) + Len(argB)
        /\ Range(ret[1].Exemplars) = Range(argA) \cup Range(argB)
        /\ mergeExemplarQueryResponses(Reverse(results)).Timeseries = ret

\* The later exemplar is folded in first and the earlier one second.
C11_Witness ==
    /\ op = "reconcileTwo"
    /\ Len(results[1].Timeseries[1].Exemplars) = 1
    /\ Len(results[2].Timeseries[1].Exemplars) = 1
    /\ results[1].Timeseries[1].Exemplars[1].TimestampMs
         > results[2].Timeseries[1].Exemplars[1].TimestampMs
    /\ Len(ret[1].Exemplars) = 2

\* The label sets of the series of a list of matrices.
MetricsOf(rs) == {AllStreams(rs)[i].Metric : i \in 1..Len(AllStreams(rs))}

(* C12: the matrix returned by the non-streaming merge has exactly one entry
   per distinct series label set of the replica results: no two entries
   carry the same label set, every label set of the inputs has its entry,
   and the entry of a label set holds the timestamps of the input series
   with that label set and of no other series; identical replicas yield the
   series once with its sample sequence. *)
C12_OneEntryPerLabelSet ==
    op = "mergeMatrices" =>
        /\ Cardinality(ret) = Cardinality(MetricsOf(results))
        /\ {e.Metric : e \in ret} = MetricsOf(results)
        /\ \A e \in ret :
              TimestampsOf(e.Values) =
                UNION {TimestampsOf(AllStreams(results)[i].Values) :
                        i \in {k \in 1..Len(AllStreams(results)) :
                                    AllStreams(results)[k].Metric = e.Metric}}
        /\ (\A i \in 1..Len(results) : results[i] = results[1] /\ Len(results[1]) = 1) =>
              ret = {results[1][1]}

\* Whether ms holds an equality matcher on the metric name.
HasEqualNameMatcher(ms) ==
    \E i \in 1..Len(ms) : ms[i].Name = MetricNameLabel /\ ms[i].Type = "="

\* The value of the equality matcher on the metric name.
EqualNameOf(ms) ==
    ms[CHOOSE i \in 1..Len(ms) : ms[i].Name = MetricNameLabel /\ ms[i].Type = "="].Value

\* The tenant's shuffle-shard read set, as selected at the instant now.
ShuffleSetOf ==
    ShuffleShardWithLookback(orgID, cfg.IngestionTenantShardSize,
                             cfg.ShuffleShardingLookbackPeriod, now)

(* C13: for a resolved tenant GetIngestersForQuery returns (1) the tenant's
   shuffle-shard read set if the strategy is shuffle and shard size and
   lookback are both positive, whatever the matchers; (2) otherwise the
   ring's replica set for the key of (tenant, metric name) if
   shard-by-all-labels is off, a matcher is given and an equality matcher on
   the metric name exists; (3) the full ring's read set in every other
   case; and no error. *)
C13_SelectorPriority ==
    (op = "GetIngestersForQuery" /\ orgID # "none") =>
        /\ replicationSet.err = "nil"
        /\ replicationSet.set =
             IF /\ cfg.ShardingStrategy = "shuffle-sharding"
                /\ cfg.IngestionTenantShardSize > 0
                /\ cfg.ShuffleShardingLookbackPeriod > 0
             THEN ShuffleSetOf
             ELSE IF ~cfg.ShardByAllLabels /\ matchers # <<>> /\ HasEqualNameMatcher(matchers)
             THEN RingGet(orgID, EqualNameOf(matchers))
             ELSE GetReplicationSetForOperation

\* Shuffle sharding applies while the matchers would allow metric-name routing.
C13_Witness ==
    /\ op = "GetIngestersForQuery"
    /\ orgID = "t2"
    /\ replicationSet.set.via = "ShuffleShardWithLookback"
    /\ ~cfg.ShardByAllLabels
    /\ Len(matchers) = 2
    /\ HasEqualNameMatcher(matchers)

(* C14: GetIngestersForMetadata and the selection of QueryExemplars return
   the tenant's shuffle-shard read set or the full ring's read set, never
   the replica set of a metric-name key, for every configuration and all
   matchers of the request. *)
C14_NoMetricNameRouting ==
    (op \in {"GetIngestersForMetadata", "QueryExemplars"} /\ orgID # "none") =>
        /\ replicationSet.err = "nil"
        /\ replicationSet.set =
             IF /\ cfg.ShardingStrategy = "shuffle-sharding"
                /\ cfg.IngestionTenantShardSize > 0
                /\ cfg.ShuffleShardingLookbackPeriod > 0
             THEN ShuffleSetOf
             ELSE GetReplicationSetForOperation

\* An exemplar query with an equality matcher on the metric name, with
\* shard-by-all-labels off and no shuffle sharding, gets the full ring.
C14_Witness ==
    /\ op = "QueryExemplars"
    /\ orgID # "none"
    /\ ~cfg.ShardByAllLabels
    /\ cfg.ShardingStrategy = "default"
    /\ HasEqualNameMatcher(matchers)
    /\ replicationSet.set = GetReplicationSetForOperation

\* No replica has been contacted and no engine was entered.
NothingStarted ==
    /\ \A r \in Ingesters :
        /\ cbPc[r] = "idle"
        /\ cbRes[r] = "none"
        /\ ingesterQueries[r] = 0
        /\ ingesterQueryFailures[r] = 0
    /\ aggPc = "idle"
    /\ wg = 0
    /\ results = <<>>

(* C16: in Query, QueryExemplars and QueryStream, when the conversion of the
   request fails or the tenant cannot be resolved, no replica callback is
   ever invoked, no query or failure counter changes and no aggregator is
   started; and the operation returns that error (the input error when both
   apply) and no result. *)
C16_ErrorBeforeAnyReplica ==
    (op \in Operations /\ (reqErr \/ orgID = "none")) =>
        /\ NothingStarted
        /\ mainPc \in {"convert", "select", "returned"}
        /\ mainPc = "returned" =>
              /\ err = IF reqErr THEN "input" ELSE "no org id"
              /\ ret = <<>>
              /\ resp = noResp

\* QueryStream has returned the tenant-resolution error.
C16_Witness ==
    /\ op = "QueryStream"
    /\ ~reqErr
    /\ orgID = "none"
    /\ mainPc = "returned"
    /\ err = "no org id"

(* C17: a replica whose call ended in a canceled-context error has its
   failure counter unchanged (each replica is called once, so it is zero),
   and a replica whose call ended in any other RPC error has it incremented
   once. *)
C17_CanceledIsNoFailure ==
    \A r \in instances :
        /\ cbRes[r] = "canceled" => ingesterQueryFailures[r] = 0
        /\ cbRes[r] = "rpc" => ingesterQueryFailures[r] = 1

\* The replicas whose callback returned an error that is no cancellation
\* and no limit error.
TransientFailed == {r \in instances : cbRes[r] \in {"client", "rpc"}}

\* Every callback has returned, successfully or with a transient error.
AllReturnedOkOrTransient ==
    \A r \in instances : cbPc[r] = "done" /\ cbRes[r] \in {"ok", "client", "rpc"}

\* The non-streaming half of C18: Query and QueryExemplars, three replicas
\* tolerating one failure, once the operation has returned.
QuorumToleranceNonStreaming ==
    (/\ op \in {"Query", "QueryExemplars"}
     /\ maxErrors = 1
     /\ mainPc = "returned"
     /\ instances = Ingesters
     /\ AllReturnedOkOrTransient) =>
        /\ Cardinality(TransientFailed) = 1 =>
              /\ err = "nil"
              /\ Len(results) = 2
              /\ ret = IF op = "Query" THEN mergeMatrices(results)
                       ELSE mergeExemplarQueryResponses(results).Timeseries
        /\ Cardinality(TransientFailed) >= 2 => err \in {"client", "rpc"} /\ ret = <<>>

(* C18: quorum tolerance of the streaming query with three replicas that
   tolerate one failure: when every callback has returned and exactly one
   of them with a transient error, the operation comes to rest only after
   it has returned, without error, the response merged from the other two
   replicas; when two or more failed, only after it has returned an error
   and no response. *)
C18_QuorumTolerance ==
    (/\ mainPc \notin {"idle", "convert", "select"}
     /\ op = "idle"
     /\ maxErrors = 1
     /\ Cardinality(instances) = 3
     /\ AllReturnedOkOrTransient
     /\ Cardinality(TransientFailed) >= 1
     /\ ~ENABLED Next) =>
        /\ mainPc = "returned"
        /\ Cardinality(TransientFailed) = 1 => err = "nil" /\ resp = Response
        /\ Cardinality(TransientFailed) >= 2 => err \in {"client", "rpc"} /\ resp = noResp

(* C19: single-writer rule: every step that changes hashToChunkseries or
   hashToTimeSeries is a step of the running aggregator taking a batch from
   chCS or chTS (no callback and not the calling goroutine moves in it), and
   the step in which the calling goroutine reads the maps to build the
   response is taken only once the aggregator has terminated. *)
C19_SingleWriter ==
    [][/\ (hashToChunkseries' # hashToChunkseries \/ hashToTimeSeries' # hashToTimeSeries) =>
            /\ aggPc = "run" /\ aggPc' = "run"
            /\ cbPc' = cbPc /\ mainPc' = mainPc
            /\ (chCS # <<>> /\ chCS' = Tail(chCS)) \/ (chTS # <<>> /\ chTS' = Tail(chTS))
       /\ (mainPc' = "returned" /\ mainPc # "returned") => aggPc = "done"
      ]_vars

\* The aggregator has written both maps and has terminated.
C19_Witness ==
    /\ hashToChunkseries # <<>>
    /\ hashToTimeSeries # <<>>
    /\ aggPc = "done"

\* The label sets of a list of series.
LabelsOf(series) == {series[i].Labels : i \in 1..Len(series)}

\* Whether check n of message m, applied to the limiter as it stands, must
\* return its limit error.
MustFail(n, m) ==
    CASE n = 1 -> chunkCount + ChunksCount(m) > MaxChunksPerQuery
      [] n = 2 -> /\ m.Chunkseries # <<>>
                  /\ Cardinality(uniqueSeries \cup LabelsOf(m.Chunkseries)) > MaxSeriesPerQuery
      [] n = 3 -> chunkBytes + ChunksSize(m) > MaxChunkBytesPerQuery
      [] n = 4 -> dataBytes + Size(m) > MaxDataBytesPerQuery
      [] n = 5 -> /\ m.Timeseries # <<>>
                  /\ Cardinality(uniqueSeries \cup LabelsOf(m.Timeseries)) > MaxSeriesPerQuery

(* C20: per received message the limit checks run in the order max chunks,
   max series over the chunk-series, max chunk bytes, max data bytes, max
   series over the time-series: the first check after a receive is check 1,
   a passed check n is followed by check n + 1 (the pushes after check 5),
   a check fails exactly when its own limit is exceeded and then ends the
   callback with the limit error of that check, and a step of check n
   leaves the counters of the other checks unchanged; so a message over
   both the series limit and the chunk-bytes limit fails with the series
   reason and its bytes are never counted. *)
C20_LimitCheckOrder ==
    [][\A r \in instances :
        /\ (cbPc[r] = "recv" /\ cbPc'[r] = "check") => cbChk'[r] = 1
        /\ (cbPc[r] = "check" /\ (cbPc'[r] # "check" \/ cbChk'[r] # cbChk[r])) =>
            LET n == cbChk[r]
                m == cbMsg[r]
            IN /\ n \in 1..5
               /\ n # 1 => chunkCount' = chunkCount
               /\ n \notin {2, 5} => uniqueSeries' = uniqueSeries
               /\ n # 3 => chunkBytes' = chunkBytes
               /\ n # 4 => dataBytes' = dataBytes
               /\ IF MustFail(n, m)
                  THEN cbPc'[r] = "done" /\ cbRes'[r] = "limit" /\ cbChk'[r] = n
                  ELSE IF n < 5
                  THEN cbPc'[r] = "check" /\ cbChk'[r] = n + 1 /\ cbMsg'[r] = m
                  ELSE cbPc'[r] = "pushCS" /\ cbMsg'[r] = m
               /\ (n = 2 /\ MustFail(2, m) /\ MustFail(3, m)) =>
                    cbChk'[r] = 2 /\ chunkBytes' = chunkBytes
      ]_vars

\* A callback has ended with the limit error of the series check on a
\* message of three chunks in four bytes; no byte of it was counted.
C20_Witness ==
    \E r \in instances :
        /\ cbRes[r] = "limit"
        /\ cbChk[r] = 2
        /\ chunkCount = 3
        /\ chunkBytes = 0
        /\ MaxChunkBytesPerQuery < 4

(* C21: a batch is pushed onto chCS or chTS only by a callback that has
   passed all five limit checks of the message the batch belongs to, and
   only if the batch is not empty; a callback reaches the pushes only from
   a passed fifth check; and the step in which a check fails pushes nothing,
   changes no map and ends the callback, so the failed message never
   reaches the maps. *)
C21_PushOnlyAfterChecks ==
    [][/\ Len(chCS') > Len(chCS) =>
            \E r \in instances :
                /\ cbPc[r] = "pushCS" /\ cbPc'[r] = "pushTS"
                /\ cbChk[r] = 0
                /\ cbMsg[r].Chunkseries # <<>>
                /\ chCS' = Append(chCS, cbMsg[r].Chunkseries)
       /\ Len(chTS') > Len(chTS) =>
            \E r \in instances :
                /\ cbPc[r] = "pushTS" /\ cbPc'[r] = "recv"
                /\ cbChk[r] = 0
                /\ cbMsg[r].Timeseries # <<>>
                /\ chTS' = Append(chTS, cbMsg[r].Timeseries)
       /\ \A r \in instances :
            /\ (cbPc'[r] = "pushCS" /\ cbPc[r] # "pushCS") =>
                    /\ cbPc[r] = "check" /\ cbChk[r] = 5
                    /\ ~MustFail(5, cbMsg[r])
                    /\ cbMsg'[r] = cbMsg[r]
            /\ (cbPc'[r] = "pushTS" /\ cbPc[r] # "pushTS") =>
                    cbPc[r] = "pushCS" /\ cbMsg'[r] = cbMsg[r]
            /\ (cbRes[r] = "none" /\ cbRes'[r] = "limit") =>
                    /\ chCS' = chCS /\ chTS' = chTS
                    /\ hashToChunkseries' = hashToChunkseries
                    /\ hashToTimeSeries' = hashToTimeSeries
                    /\ cbPc'[r] = "done"
            /\ cbPc[r] = "done" => cbPc'[r] = "done"
       /\ \A i \in 1..Len(chCS') : chCS'[i] # <<>>
       /\ \A i \in 1..Len(chTS') : chTS'[i] # <<>>
      ]_vars

\* The only message received failed the fifth check after its chunk-series
\* had passed the series check: nothing of it is queued or in the maps.
C21_Witness ==
    /\ budget = MaxMsgs - 1
    /\ \E r \in instances : cbRes[r] = "limit" /\ cbChk[r] = 5
    /\ uniqueSeries = {LabelsA, LabelsB}
    /\ chCS = <<>> /\ chTS = <<>>
    /\ hashToChunkseries = <<>> /\ hashToTimeSeries = <<>>

\* The chunks of the series with the given key in a list of series, in order.
RECURSIVE ChunksFor(_, _)
ChunksFor(key, series) ==
    IF series = <<>> THEN <<>>
    ELSE (IF LabelsToKeyString(Head(series).Labels) = key
          THEN Head(series).Chunks ELSE <<>>) \o ChunksFor(key, Tail(series))

\* The label sets with the given key in a list of series.
LabelsFor(key, series) ==
    {series[i].Labels : i \in {j \in 1..Len(series) :
                                  LabelsToKeyString(series[j].Labels) = key}}

SeriesKeys(series) ==
    {LabelsToKeyString(series[i].Labels) : i \in 1..Len(series)}

(* C22: after the aggregator has processed a sequence of chunk-series
   batches, the map has one entry per series key received; the entry's
   chunk list is the concatenation, in processing order, of every chunk
   list received for that key (so its length is the sum of their lengths),
   and the entry holds the series' label set. *)
C22_ChunksConcatenated ==
    op = "aggregateChunkseries" =>
        LET all == AllStreams(results) IN
        /\ DOMAIN ret = SeriesKeys(all)
        /\ \A key \in DOMAIN ret :
            /\ ret[key].Chunks = ChunksFor(key, all)
            /\ LabelsFor(key, all) = {ret[key].Labels}

\* One key received in two batches, with the same chunk in both: it is
\* kept twice.
C22_Witness ==
    /\ op = "aggregateChunkseries"
    /\ Len(results) = 2
    /\ \E key \in DOMAIN ret :
        /\ key \in SeriesKeys(results[1]) /\ key \in SeriesKeys(results[2])
        /\ ret[key].Chunks = <<1, 1>>

\* The samples of the series with the given key in a list of series.
SamplesFor(key, series) ==
    {series[i].Samples : i \in {j \in 1..Len(series) :
                                   LabelsToKeyString(series[j].Labels) = key}}

(* C23: when every sample list pushed is strictly ascending by timestamp,
   after any sequence of time-series batches the sample list stored for a
   series key is strictly ascending by timestamp (so no timestamp occurs
   twice) and its timestamps are exactly the union of the timestamps of
   the lists received for that key. *)
C23_TimeseriesSortedUnion ==
    op = "aggregateTimeseries" =>
        LET all == AllStreams(results) IN
        /\ DOMAIN ret = SeriesKeys(all)
        /\ \A key \in DOMAIN ret :
            /\ IsSorted(ret[key].Samples)
            /\ TimestampsOf(ret[key].Samples) =
                   UNION {TimestampsOf(l) : l \in SamplesFor(key, all)}

\* One key received in two batches, the second repeating a timestamp of the
\* first and bringing a new one.
C23_Witness ==
    /\ op = "aggregateTimeseries"
    /\ Len(results) = 2
    /\ \E key \in DOMAIN ret :
        /\ key \in SeriesKeys(results[1]) /\ key \in SeriesKeys(results[2])
        /\ \E a \in SamplesFor(key, results[1]), b \in SamplesFor(key, results[2]) :
            /\ TimestampsOf(a) \cap TimestampsOf(b) # {}
            /\ TimestampsOf(b) \ TimestampsOf(a) # {}

(* C24: once the aggregator has taken the stop signal it has returned: it
   stays returned, takes no batch off either channel, and neither map
   changes again, whatever the callbacks still push. *)
C24_NoActivityAfterStop ==
    [][aggPc = "done" =>
          /\ aggPc' = "done"
          /\ hashToChunkseries' = hashToChunkseries
          /\ hashToTimeSeries' = hashToTimeSeries
          /\ Len(chCS') >= Len(chCS)
          /\ Len(chTS') >= Len(chTS)
          /\ (chCS # <<>> => Head(chCS') = Head(chCS))
          /\ (chTS # <<>> => Head(chTS') = Head(chTS))
      ]_vars

\* The aggregator has returned and a batch pushed after the fan-out
\* returned sits in a channel, its series in no map.
C24_Witness ==
    /\ aggPc = "done"
    /\ Len(chCS) > queuedCS
    /\ hashToChunkseries = <<>>

\* The callback of replica r is at a send on a full channel.
PushBlocked(r) ==
    \/ /\ cbPc[r] = "pushCS"
       /\ cbMsg[r].Chunkseries # <<>>
       /\ Len(chCS) >= Cardinality(instances)
    \/ /\ cbPc[r] = "pushTS"
       /\ cbMsg[r].Timeseries # <<>>
       /\ Len(chTS) >= Cardinality(instances)

(* C25: no push of a replica callback blocks forever: no callback is ever
   at a send on a full channel after the aggregator, the only receiver,
   has returned. *)
C25_PushNeverBlocksForever ==
    \A r \in instances : ~(aggPc = "done" /\ PushBlocked(r))

(* C26: for every replica the failure counter is at most the query
   counter; a callback increments each of the two at most once; and a
   callback that got no client, or that ended with a limit error, has
   incremented no failure counter. *)
C26_FailuresAtMostQueries ==
    \A r \in Ingesters :
        /\ ingesterQueryFailures[r] <= ingesterQueries[r]
        /\ ingesterQueries[r] <= 1
        /\ ingesterQueryFailures[r] <= 1
        /\ cbRes[r] = "client" => ingesterQueryFailures[r] = 0
        /\ cbRes[r] = "limit" => ingesterQueryFailures[r] = 0

\* One callback got no client, one ended with a limit error and one with an
\* RPC error, the only one counted as a failure.
C26_Witness ==
    \E r1, r2, r3 \in instances :
        /\ cbRes[r1] = "client" /\ ingesterQueries[r1] = 0
        /\ cbRes[r2] = "limit" /\ ingesterQueries[r2] = 1
        /\ cbRes[r3] = "rpc"
        /\ ingesterQueries[r3] = 1 /\ ingesterQueryFailures[r3] = 1

\* The value of the map of maps at address a.
MapAt(a) == [k \in DOMAIN heap[a] |-> heap[heap[a][k]]]

\* The content after one more AddLink, as a value.
WithLink(m, l) ==
    (l.section :> ((l.path :> l.description) @@
                   (IF l.section \in DOMAIN m THEN m[l.section] ELSE <<>>))) @@ m

\* The content a sequence of AddLink calls produces from the empty content.
RECURSIVE ContentOf(_)
ContentOf(ls) ==
    IF ls = <<>> THEN <<>>
    ELSE WithLink(ContentOf(SubSeq(ls, 1, Len(ls) - 1)), ls[Len(ls)])

(* C27: the map GetContent returns is the content produced by exactly the
   AddLink calls that had returned when it took the lock; whenever the lock
   is free the stored content is the content produced by the AddLink calls
   that have returned, whatever was written to a returned map; and no step
   other than its caller's own write changes a returned map. *)
C27_SnapshotIsolation ==
    /\ [](pagePc[Getter] = "returned" => MapAt(returned) = ContentOf(doneAtLock))
    /\ [](mu = "free" => MapAt(content) = ContentOf(done))
    /\ [][(returned # 0 /\ pagePc'[Getter] = pagePc[Getter])
            => MapAt(returned)' = MapAt(returned)]_vars

\* GetContent returned a map with a section in it, its caller wrote to the
\* map, and an AddLink to that section returned after GetContent took the
\* lock.
C27_Witness ==
    /\ pagePc[Getter] = "written"
    /\ mu = "free"
    /\ Len(done) > Len(doneAtLock)
    /\ done[Len(done)].section \in DOMAIN ContentOf(doneAtLock)
    /\ MapAt(returned) # ContentOf(doneAtLock)
    /\ MapAt(returned) # MapAt(content)

====
